---- MODULE Spec2Model ----
(***************************************************************************)
(* Bar-by-bar backtest engine of src/src/backtesting/backtest_engine.py    *)
(* with the stop-loss, take-profit and position-sizing managers of         *)
(* src/src/risk_management.                                                *)
(*                                                                         *)
(* Numbers.  The code computes in floats.  Here prices are integer ticks,  *)
(* sizes are integer lots of 0.001 unit (the default min_order_size is one *)
(* lot), money is tick*lot, and every rate (slippage, commission, stop and *)
(* target percentages, exit fractions, risk per trade) is an integer       *)
(* number of basis points: 0.0005 is 5, 1.0 is 10000.  A product with a    *)
(* rate and a quotient are rounded down to the grid.                       *)
(*                                                                         *)
(* Four specifications share the handlers:                                 *)
(*   Spec      BacktestEngine.run, one bar after the other;                *)
(*   SpecUnit  the engine's handlers called one at a time by a caller that *)
(*             holds the two managers and registers each position with     *)
(*             them (set_stop_loss / set_take_profit), as the live bot     *)
(*             does in src/src/main.py;                                    *)
(*   SpecCalls single calls of the sizer, of the take-profit manager and   *)
(*             of the data reads of one turn of run()'s loop, and of the   *)
(*             performance metrics;                                        *)
(*   SpecSweep StrategyOptimizer.optimize, one combination after the other *)
(*             and each run bar by bar.                                    *)
(***************************************************************************)
EXTENDS Integers, Sequences, FiniteSets, TLC

VARIABLES
    cfg,             \* constructor arguments and the three risk configs
    capital,         \* BacktestEngine.capital
    trades,          \* BacktestEngine.trades: the closed ledger
    open_trades,     \* BacktestEngine.open_trades: symbol -> Trade
    equity_curve,    \* BacktestEngine.equity_curve
    timestamps,      \* BacktestEngine.timestamps
    positions,       \* BaseStrategy.positions: symbol -> position info
    active_stops,    \* StopLossManager.active_stops: symbol -> stop info
    active_targets,  \* TakeProfitManager.active_targets: symbol -> TP info
    pc,              \* where run() stands
    i,               \* index of the bar run() is at (the caller's clock in SpecUnit)
    bar,             \* the bar at index i
    fills,           \* history: one record per fill, in order
    bar_open,        \* history: open_trades as it was when the bar (or the call) began
    call,            \* SpecCalls: the function under call and its arguments
    ret              \* what the call returned (Spec: generate_signal, symbol by symbol)

vars == <<cfg, capital, trades, open_trades, equity_curve, timestamps, positions,
          active_stops, active_targets, pc, i, bar, fills, bar_open, call, ret>>

----------------------------------------------------------------------------
(* Bounds of the model *)

\* bars of data after the warm-up window
ExtraBars == 3
\* handler calls of one SpecUnit behaviour
MaxCalls == 6
\* positions one SpecUnit behaviour opens
MaxEntries == 2

(* Program constants *)

\* run(): "if i < 100: continue"
WarmUp == 100
\* validate_position_size: min_order_size = 0.001, in lots
MinOrderLots == 1

\* _kelly_criterion: "min(kelly_percent * kelly_fraction, 0.1)", in basis points
KellyCap == 1000
\* _kelly_criterion: "kelly_percent = 0.01", in basis points
KellyMinimum == 100

\* _calculate_risk_reward_tp: "ratio = self.config.get('ratio', 2.0)"
DefaultRatio == 2

\* _calculate_percentage_stop: "stop_percent = self.config.get('value', 0.02)"
DefaultStopPercent == 200
\* _calculate_atr_stop: "len(market_data) < 20"
AtrMinBars == 20
\* _calculate_atr_stop: "atr_period = self.config.get('atr_period', 14)"
DefaultAtrPeriod == 14
\* _calculate_atr_stop: "atr_multiplier = self.config.get('multiplier', 2.0)"
DefaultMultiplier == 2

\* 1.0 as a rate, in basis points
One == 100 * 100

\* initial_capital given to the constructor
InitialCapital == 1000000

Symbols == {"BTCUSDT"}
SymbolOrder == <<"BTCUSDT">>

Closes == {9000, 9700, 10000, 10300, 11000}
Spreads == {0, 1500}
Bars == {[close |-> c, high |-> c + d, low |-> c - d] : c \in Closes, d \in Spreads}
NoBar == [close |-> 0, high |-> 0, low |-> 0]
\* data: symbol -> DataFrame; one row of it is symbol -> bar
Rows == [Symbols -> Bars]
NoRow == [s \in Symbols |-> NoBar]

Signals == {"buy", "sell", "hold"}
\* what a call of generate_signal comes to: a signal, or an exception
Outcomes == Signals \cup {"raise"}

\* prices the caller of SpecUnit passes
EntryPrices == {10000}
ExitPrices == {9000, 9700, 10300, 11000}

StopConfigs ==
    { [type |-> "percentage", value |-> 200, initial_stop |-> 150,
       trailing_percent |-> 100, activation_percent |-> 100],
      [type |-> "trailing", value |-> 200, initial_stop |-> 150,
       trailing_percent |-> 100, activation_percent |-> 100] }

TakeProfitConfigs ==
    { [type |-> "risk_reward", ratio |-> 2, levels |-> << >>],
      [type |-> "multi_level", ratio |-> 2,
       levels |-> << [percentage |-> 200, exit_size |-> 3300],
                     [percentage |-> 400, exit_size |-> 3300],
                     [percentage |-> 600, exit_size |-> 3400] >>],
      [type |-> "multi_level", ratio |-> 2,
       levels |-> << [percentage |-> 200, exit_size |-> 10000],
                     [percentage |-> 900, exit_size |-> 5000] >>],
      [type |-> "multi_level", ratio |-> 2,
       levels |-> << [percentage |-> 200, exit_size |-> 5000],
                     [percentage |-> 400, exit_size |-> 3000] >>] }

Configs ==
    { [commission |-> 6, slippage |-> 5, leverage |-> 1,
       method |-> "fixed_risk", risk_per_trade |-> 200, kelly_fraction |-> 2500,
       stop |-> s, take_profit |-> t] :
        s \in StopConfigs, t \in TakeProfitConfigs }

----------------------------------------------------------------------------
(* Helpers *)

Max(a, b) == IF a >= b THEN a ELSE b
Min(a, b) == IF a <= b THEN a ELSE b
Abs(a) == IF a >= 0 THEN a ELSE 0 - a

\* x * rate, rate in basis points: (x * rate) \div One, taken in two parts so that
\* the product stays in range
Times(x, rate) == (x \div One) * rate + ((x % One) * rate) \div One

\* no function is under call
NoCall == [fn |-> "none"]
NoRet == [raised |-> FALSE]

EmptyDict == [s \in {} |-> 0]
Put(d, k, v) == [s \in (DOMAIN d) \cup {k} |-> IF s = k THEN v ELSE d[s]]
Del(d, k) == [s \in (DOMAIN d) \ {k} |-> d[s]]

\* config.get(key, default)
Get(config, key, default) == IF key \in DOMAIN config THEN config[key] ELSE default

----------------------------------------------------------------------------
(* Trade *)

NewTrade(symbol, side, entry_time, entry_price, size, stop_loss, take_profit) ==
    [symbol |-> symbol, side |-> side, entry_time |-> entry_time,
     entry_price |-> entry_price, size |-> size, stop_loss |-> stop_loss,
     take_profit |-> take_profit,
     exit_time |-> -1, exit_price |-> -1, pnl |-> 0, pnl_percent |-> 0,
     exit_reason |-> "", remaining_size |-> size]

\* PnL of one exit, as Trade.close computes it
ExitPnl(side, entry_price, exit_price, size) ==
    IF side = "long" THEN (exit_price - entry_price) * size
                     ELSE (entry_price - exit_price) * size

\* mutant of TradeClose: the remainder is taken from the original size each time
TradeCloseFromOriginal(t, exit_time, exit_price, size, reason) ==
    LET pnl == ExitPnl(t.side, t.entry_price, exit_price, size)
    IN  [t EXCEPT !.exit_time = exit_time,
                  !.exit_price = exit_price,
                  !.exit_reason = reason,
                  !.pnl = t.pnl + pnl,
                  !.remaining_size = t.size - size,
                  !.pnl_percent = ((t.pnl + pnl) * 100) \div (t.entry_price * t.size)]

TradeClose(t, exit_time, exit_price, size, reason) ==
    LET pnl == ExitPnl(t.side, t.entry_price, exit_price, size)
    IN  [t EXCEPT !.exit_time = exit_time,
                  !.exit_price = exit_price,
                  !.exit_reason = reason,
                  !.pnl = t.pnl + pnl,
                  !.remaining_size = t.remaining_size - size,
                  !.pnl_percent = ((t.pnl + pnl) * 100) \div (t.entry_price * t.size)]

----------------------------------------------------------------------------
(* StopLossManager *)

CalculatePercentageStop(entry_price, side) ==
    LET stop_percent == Get(cfg.stop, "value", DefaultStopPercent)
    IN  IF side = "long" THEN Times(entry_price, One - stop_percent)
                         ELSE Times(entry_price, One + stop_percent)

\* market_data left out: None, which the length test takes like a frame without rows
NoData == << >>

\* calculate_atr: the true range of row k; the first row has no close before it
TrueRange(market_data, k) ==
    LET row == market_data[k]
    IN  IF k = 1 THEN row.high - row.low
        ELSE Max(row.high - row.low,
                 Max(Abs(row.high - market_data[k - 1].close),
                     Abs(row.low - market_data[k - 1].close)))

\* calculate_atr(...).iloc[-1]: the mean of the last period true ranges, NaN when
\* the frame has fewer rows than the period
CalculateAtr(market_data, period) ==
    IF Len(market_data) < period THEN [nan |-> TRUE, value |-> 0]
    ELSE LET n == Len(market_data)
             tr == [k \in 1..period |-> TrueRange(market_data, n - period + k)]
             RECURSIVE Total(_)
             Total(k) == IF k = 0 THEN 0 ELSE tr[k] + Total(k - 1)
         IN  [nan |-> FALSE, value |-> Total(period) \div period]

CalculateAtrStop(entry_price, side, market_data) ==
    IF market_data = NoData \/ Len(market_data) < AtrMinBars
    THEN CalculatePercentageStop(entry_price, side)
    ELSE LET atr_period == Get(cfg.stop, "atr_period", DefaultAtrPeriod)
             atr_multiplier == Get(cfg.stop, "multiplier", DefaultMultiplier)
             current_atr == CalculateAtr(market_data, atr_period)
         IN  IF current_atr.nan THEN CalculatePercentageStop(entry_price, side)
             ELSE IF side = "long"
                  THEN entry_price - current_atr.value * atr_multiplier
                  ELSE entry_price + current_atr.value * atr_multiplier

CalculateTrailingStop(entry_price, side) ==
    IF side = "long" THEN Times(entry_price, One - cfg.stop.initial_stop)
                     ELSE Times(entry_price, One + cfg.stop.initial_stop)

CalculateStopLoss(entry_price, side, market_data) ==
    IF cfg.stop.type = "percentage" THEN CalculatePercentageStop(entry_price, side)
    ELSE IF cfg.stop.type = "atr" THEN CalculateAtrStop(entry_price, side, market_data)
    ELSE IF cfg.stop.type = "trailing" THEN CalculateTrailingStop(entry_price, side)
    ELSE CalculatePercentageStop(entry_price, side)

\* profit_percent >= activation_percent, with profit_percent = profit / entry_price
IsActivated(profit, entry_price) ==
    profit * One >= cfg.stop.activation_percent * entry_price

\* mutant of UpdateTrailingStop: the new stop is taken as it comes, without max / min
UpdateTrailingStopLoose(current_price, current_stop, side, entry_price) ==
    IF cfg.stop.type # "trailing" THEN current_stop
    ELSE IF side = "long"
         THEN IF IsActivated(current_price - entry_price, entry_price)
              THEN Times(current_price, One - cfg.stop.trailing_percent)
              ELSE current_stop
         ELSE IF IsActivated(entry_price - current_price, entry_price)
              THEN Times(current_price, One + cfg.stop.trailing_percent)
              ELSE current_stop

UpdateTrailingStop(current_price, current_stop, side, entry_price) ==
    IF cfg.stop.type # "trailing" THEN current_stop
    ELSE IF side = "long"
         THEN IF IsActivated(current_price - entry_price, entry_price)
              THEN Max(current_stop, Times(current_price, One - cfg.stop.trailing_percent))
              ELSE current_stop
         ELSE IF IsActivated(entry_price - current_price, entry_price)
              THEN Min(current_stop, Times(current_price, One + cfg.stop.trailing_percent))
              ELSE current_stop

SetStopLoss(stops, symbol, entry_price, side) ==
    Put(stops, symbol,
        [price |-> CalculateStopLoss(entry_price, side, NoData),
         entry_price |-> entry_price,
         side |-> side, type |-> cfg.stop.type])

UpdateStopLoss(stops, symbol, current_price) ==
    IF symbol \notin DOMAIN stops THEN stops
    ELSE IF stops[symbol].type = "trailing"
         THEN [stops EXCEPT ![symbol].price =
                    UpdateTrailingStop(current_price, stops[symbol].price,
                                       stops[symbol].side, stops[symbol].entry_price)]
         ELSE stops

CheckStopHit(stops, symbol, current_price) ==
    IF symbol \notin DOMAIN stops THEN FALSE
    ELSE IF stops[symbol].side = "long"
         THEN current_price <= stops[symbol].price
         ELSE current_price >= stops[symbol].price

RemoveStopLoss(stops, symbol) == Del(stops, symbol)

----------------------------------------------------------------------------
(* TakeProfitManager *)

\* mutant of CalculateRiskRewardTp: a short's target is put where a long's is
CalculateRiskRewardTpLongOnly(entry_price, stop_loss, side) ==
    LET ratio == Get(cfg.take_profit, "ratio", DefaultRatio)
        partial_exits == Get(cfg.take_profit, "partial_exits", << >>)
        risk == Abs(entry_price - stop_loss)
    IN  IF partial_exits # << >>
        THEN [k \in 1..Len(partial_exits) |->
                <<entry_price + risk * Get(partial_exits[k], "ratio", ratio),
                  Get(partial_exits[k], "level", One)>>]
        ELSE << <<entry_price + risk * ratio, One>> >>

CalculateRiskRewardTp(entry_price, stop_loss, side) ==
    LET ratio == Get(cfg.take_profit, "ratio", DefaultRatio)
        partial_exits == Get(cfg.take_profit, "partial_exits", << >>)
        risk == Abs(entry_price - stop_loss)
    IN  IF partial_exits # << >>
        THEN [k \in 1..Len(partial_exits) |->
                LET exit_ratio == Get(partial_exits[k], "ratio", ratio)
                    exit_size == Get(partial_exits[k], "level", One)
                IN  IF side = "long"
                    THEN <<entry_price + risk * exit_ratio, exit_size>>
                    ELSE <<entry_price - risk * exit_ratio, exit_size>>]
        ELSE IF side = "long"
             THEN << <<entry_price + risk * ratio, One>> >>
             ELSE << <<entry_price - risk * ratio, One>> >>

\* _calculate_multi_level_tp: the levels used when the config lists none
DefaultLevels ==
    << [percentage |-> 200, exit_size |-> 3300],
       [percentage |-> 400, exit_size |-> 3300],
       [percentage |-> 600, exit_size |-> 3400] >>

CalculateMultiLevelTp(entry_price, side) ==
    LET given == Get(cfg.take_profit, "levels", << >>)
        levels == IF given = << >> THEN DefaultLevels ELSE given
    IN  [k \in 1..Len(levels) |->
            IF side = "long"
            THEN <<Times(entry_price, One + levels[k].percentage), levels[k].exit_size>>
            ELSE <<Times(entry_price, One - levels[k].percentage), levels[k].exit_size>>]

CalculateTakeProfit(entry_price, stop_loss, side) ==
    IF cfg.take_profit.type = "risk_reward"
    THEN CalculateRiskRewardTp(entry_price, stop_loss, side)
    ELSE IF cfg.take_profit.type = "multi_level"
    THEN CalculateMultiLevelTp(entry_price, side)
    ELSE CalculateRiskRewardTp(entry_price, stop_loss, side)

SetTakeProfit(targets, symbol, entry_price, stop_loss, side) ==
    LET tg == CalculateTakeProfit(entry_price, stop_loss, side)
    IN  Put(targets, symbol,
            [targets |-> tg, entry_price |-> entry_price, side |-> side,
             filled |-> [k \in 1..Len(tg) |-> FALSE]])

\* whether level k of the symbol's targets is unfilled and reached by the price
LevelHit(info, k, current_price) ==
    /\ ~info.filled[k]
    /\ IF info.side = "long" THEN current_price >= info.targets[k][1]
                             ELSE current_price <= info.targets[k][1]

\* check_take_profit_hit: the first level, in list order, that is hit (0: None)
TpHitLevel(targets, symbol, current_price) ==
    IF symbol \notin DOMAIN targets THEN 0
    ELSE LET info == targets[symbol]
             hit == {k \in 1..Len(info.targets) : LevelHit(info, k, current_price)}
         IN  IF hit = {} THEN 0 ELSE CHOOSE k \in hit : \A m \in hit : k <= m

\* check_take_profit_hit: the manager after the call (filled[i] = True)
TpAfterCheck(targets, symbol, current_price) ==
    LET k == TpHitLevel(targets, symbol, current_price)
    IN  IF k = 0 THEN targets ELSE [targets EXCEPT ![symbol].filled[k] = TRUE]

AllTargetsFilled(targets, symbol) ==
    IF symbol \notin DOMAIN targets THEN TRUE
    ELSE \A k \in 1..Len(targets[symbol].filled) : targets[symbol].filled[k]

RemoveTakeProfit(targets, symbol) == Del(targets, symbol)

----------------------------------------------------------------------------
(* PositionSizer *)

\* mutant of FixedRisk: the size is not capped at the capital allocation
FixedRiskUncapped(cap, entry_price, stop_loss, leverage) ==
    LET risk_amount == Times(cap, cfg.risk_per_trade)
        price_risk == Abs(entry_price - stop_loss)
    IN  IF price_risk = 0 THEN 0
        ELSE (risk_amount \div price_risk) * leverage

FixedRisk(cap, entry_price, stop_loss, leverage) ==
    LET risk_amount == Times(cap, cfg.risk_per_trade)
        price_risk == Abs(entry_price - stop_loss)
    IN  IF price_risk = 0 THEN 0
        ELSE Min((risk_amount \div price_risk) * leverage,
                 (cap * leverage) \div entry_price)

\* win_rate, avg_win, avg_loss of a call: left out (None), or three rates
NoStats == [given |-> FALSE]

\* the statistics pass the checks of _kelly_criterion
ValidStats(stats) ==
    /\ stats.given
    /\ ~(stats.win_rate <= 0 \/ stats.win_rate >= One)
    /\ stats.avg_loss # 0

\* win_rate - ((1 - win_rate) / win_loss_ratio) with win_loss_ratio = |avg_win / avg_loss|
KellyFormula(stats) ==
    stats.win_rate
        - ((One - stats.win_rate) * Abs(stats.avg_loss)) \div Abs(stats.avg_win)

\* the risk fraction _kelly_criterion applies to the capital
KellyPercent(stats) ==
    LET kelly_percent ==
            Max(0, Min(Times(KellyFormula(stats), cfg.kelly_fraction), KellyCap))
    IN  IF kelly_percent <= 0 THEN KellyMinimum ELSE kelly_percent

\* win_loss_ratio is 0.0 and the Kelly formula divides by it: ZeroDivisionError
KellyRaises(stats) == ValidStats(stats) /\ stats.avg_win = 0

KellyCriterion(cap, entry_price, stop_loss, leverage, stats) ==
    IF ~ValidStats(stats) THEN FixedRisk(cap, entry_price, stop_loss, leverage)
    ELSE LET risk_amount == Times(cap, KellyPercent(stats))
             price_risk == Abs(entry_price - stop_loss)
         IN  IF price_risk = 0 THEN 0
             ELSE Min((risk_amount \div price_risk) * leverage,
                      (cap * leverage) \div entry_price)

\* calculate_position_size raises instead of returning
CalculatePositionSizeRaises(stats) ==
    cfg.method = "kelly_criterion" /\ KellyRaises(stats)

CalculatePositionSize(cap, entry_price, stop_loss, leverage, stats) ==
    IF cfg.method = "kelly_criterion"
    THEN KellyCriterion(cap, entry_price, stop_loss, leverage, stats)
    ELSE FixedRisk(cap, entry_price, stop_loss, leverage)

\* max_order_size left out: None, which the code tests like 0
NoMaxOrder == 0

\* mutant of ValidatePositionSize: the maximum order size is not looked at
ValidatePositionSizeNoMax(position_size, entry_price, cap, leverage, min_size, max_size) ==
    IF position_size < min_size THEN 0
    ELSE IF (position_size * entry_price) \div leverage > cap
         THEN (cap * leverage) \div entry_price
         ELSE position_size

ValidatePositionSize(position_size, entry_price, cap, leverage, min_size, max_size) ==
    IF position_size < min_size THEN 0
    ELSE LET capped == IF max_size # NoMaxOrder /\ position_size > max_size
                       THEN max_size
                       ELSE position_size
         IN  IF (capped * entry_price) \div leverage > cap
             THEN (cap * leverage) \div entry_price
             ELSE capped

----------------------------------------------------------------------------
(* BacktestEngine: the handlers, as functions of the engine's fields *)

\* the fields a handler reads and writes
Engine ==
    [capital |-> capital, trades |-> trades, open_trades |-> open_trades,
     positions |-> positions, fills |-> fills]

\* slippage on an entry: a long buys higher, a short sells lower
EntryFillPrice(price, side) ==
    IF side = "long" THEN Times(price, One + cfg.slippage)
                     ELSE Times(price, One - cfg.slippage)

\* mutant of ExitFillPrice: an exit slipped the way an entry is
ExitFillPriceAsEntry(price, side) ==
    IF side = "long" THEN Times(price, One + cfg.slippage)
                     ELSE Times(price, One - cfg.slippage)

\* slippage on an exit: a long sells lower, a short buys back higher
ExitFillPrice(price, side) ==
    IF side = "long" THEN Times(price, One - cfg.slippage)
                     ELSE Times(price, One + cfg.slippage)

CommissionCost(notional) == Times(notional, cfg.commission)

\* history record of one fill; ref is the price before slippage
Fill(kind, t, ref, price, size, pnl, reason, time) ==
    [kind |-> kind, symbol |-> t.symbol, entry_time |-> t.entry_time, side |-> t.side,
     ref |-> ref, price |-> price, size |-> size, pnl |-> pnl, reason |-> reason,
     time |-> time]

EnterPosition(e, symbol, signal, current_price, timestamp) ==
    LET side == IF signal = "buy" THEN "long" ELSE "short"
        entry_price == EntryFillPrice(current_price, side)
        \* the window goes to calculate_stop_loss, whose atr branch alone reads it
        stop_loss == CalculateStopLoss(entry_price, side, NoData)
        position_size ==
            ValidatePositionSize(
                CalculatePositionSize(e.capital, entry_price, stop_loss, cfg.leverage,
                                      NoStats),
                entry_price, e.capital, cfg.leverage, MinOrderLots, NoMaxOrder)
        tp_levels == CalculateTakeProfit(entry_price, stop_loss, side)
        trade == NewTrade(symbol, side, timestamp, entry_price, position_size,
                          stop_loss, tp_levels)
    IN  IF position_size <= 0 THEN e
        ELSE [e EXCEPT
                !.capital = e.capital - CommissionCost(position_size * entry_price),
                !.open_trades = Put(e.open_trades, symbol, trade),
                !.positions = Put(e.positions, symbol,
                                  [side |-> side, size |-> position_size,
                                   entry_price |-> entry_price]),
                !.fills = Append(e.fills,
                                 Fill("entry", trade, current_price, entry_price,
                                      position_size, 0, "entry", timestamp))]

PartialClose(e, symbol, exit_price, timestamp, size, reason) ==
    LET trade == e.open_trades[symbol]
        price == ExitFillPrice(exit_price, trade.side)
        closed == TradeClose(trade, timestamp, price, size, reason)
        proceeds == size * price
        commission_cost == CommissionCost(proceeds)
    IN  [e EXCEPT
            !.capital = e.capital + proceeds - commission_cost
                        + (closed.pnl \div closed.size) * size,
            !.open_trades = Put(e.open_trades, symbol, closed),
            !.fills = Append(e.fills,
                             Fill("partial", trade, exit_price, price, size,
                                  closed.pnl - trade.pnl, reason, timestamp))]

\* mutant of ClosePosition: the original size is closed, not what remains
ClosePositionWholeSize(e, symbol, exit_price, timestamp, reason) ==
    IF symbol \notin DOMAIN e.open_trades THEN e
    ELSE LET trade == e.open_trades[symbol]
             price == ExitFillPrice(exit_price, trade.side)
             closed == TradeClose(trade, timestamp, price, trade.size, reason)
             proceeds == closed.size * price
             commission_cost == CommissionCost(proceeds)
         IN  [e EXCEPT
                !.capital = e.capital + closed.pnl - commission_cost,
                !.trades = Append(e.trades, closed),
                !.open_trades = Del(e.open_trades, symbol),
                !.positions = Del(e.positions, symbol),
                !.fills = Append(e.fills,
                                 Fill("final", trade, exit_price, price,
                                      trade.size, closed.pnl - trade.pnl,
                                      reason, timestamp))]

ClosePosition(e, symbol, exit_price, timestamp, reason) ==
    IF symbol \notin DOMAIN e.open_trades THEN e
    ELSE LET trade == e.open_trades[symbol]
             price == ExitFillPrice(exit_price, trade.side)
             closed == TradeClose(trade, timestamp, price, trade.remaining_size, reason)
             proceeds == closed.size * price
             commission_cost == CommissionCost(proceeds)
         IN  [e EXCEPT
                !.capital = e.capital + closed.pnl - commission_cost,
                !.trades = Append(e.trades, closed),
                !.open_trades = Del(e.open_trades, symbol),
                !.positions = Del(e.positions, symbol),
                !.fills = Append(e.fills,
                                 Fill("final", trade, exit_price, price,
                                      trade.remaining_size, closed.pnl - trade.pnl,
                                      reason, timestamp))]

\* f"take_profit_{level_idx}", level_idx counted from 0
TakeProfitReason(level) ==
    IF level = 1 THEN "take_profit_0"
    ELSE IF level = 2 THEN "take_profit_1"
    ELSE "take_profit_2"

\* _check_exits: the engine and the two managers after the call
CheckExits(e, stops, targets, symbol, current_price, timestamp) ==
    IF symbol \notin DOMAIN e.open_trades
    THEN [e |-> e, stops |-> stops, targets |-> targets]
    ELSE
    LET trade == e.open_trades[symbol] IN
    IF CheckStopHit(stops, symbol, current_price)
    THEN [e |-> ClosePosition(e, symbol, trade.stop_loss, timestamp, "stop_loss"),
          stops |-> stops, targets |-> targets]
    ELSE
    LET stops2 == UpdateStopLoss(stops, symbol, current_price)
        level == TpHitLevel(targets, symbol, current_price)
        targets2 == TpAfterCheck(targets, symbol, current_price)
    IN  IF level = 0
        THEN [e |-> e, stops |-> stops2, targets |-> targets2]
        ELSE LET tp_price == targets[symbol].targets[level][1]
                 exit_size == targets[symbol].targets[level][2]
                 partial_size == Times(trade.remaining_size, exit_size)
             IN  IF AllTargetsFilled(targets2, symbol)
                 THEN [e |-> ClosePosition(e, symbol, tp_price, timestamp,
                                           "take_profit_final"),
                       stops |-> stops2, targets |-> targets2]
                 ELSE [e |-> PartialClose(e, symbol, tp_price, timestamp, partial_size,
                                          TakeProfitReason(level)),
                       stops |-> stops2, targets |-> targets2]

\* _calculate_equity at the closes of one row of the data
CalculateEquity(e, row) ==
    LET unrealized(t) ==
            IF t.side = "long"
            THEN (row[t.symbol].close - t.entry_price) * t.remaining_size
            ELSE (t.entry_price - row[t.symbol].close) * t.remaining_size
        RECURSIVE Sum(_)
        Sum(S) == IF S = {} THEN 0
                  ELSE LET s == CHOOSE x \in S : TRUE
                       IN  unrealized(e.open_trades[s]) + Sum(S \ {s})
    IN  e.capital + Sum(DOMAIN e.open_trades)

----------------------------------------------------------------------------
(* BacktestEngine.run *)

MaxBars == WarmUp + ExtraBars

\* "for symbol in list(self.open_trades.keys())": _check_exits on each open symbol
RECURSIVE CheckOpenTrades(_, _, _, _)
CheckOpenTrades(st, k, row, timestamp) ==
    IF k > Len(SymbolOrder) THEN st
    ELSE LET symbol == SymbolOrder[k]
         IN  CheckOpenTrades(
                IF symbol \in DOMAIN open_trades
                THEN CheckExits(st.e, st.stops, st.targets, symbol,
                                row[symbol].close, timestamp)
                ELSE st,
                k + 1, row, timestamp)

\* mutant of EnterSignals: a buy or sell enters whether the symbol is flat or not
RECURSIVE EnterSignalsAnyway(_, _, _, _, _)
EnterSignalsAnyway(e, k, signals, row, timestamp) ==
    IF k > Len(SymbolOrder) THEN e
    ELSE LET symbol == SymbolOrder[k]
         IN  IF signals[symbol] = "raise" THEN e
             ELSE EnterSignalsAnyway(
                    IF signals[symbol] \in {"buy", "sell"}
                    THEN EnterPosition(e, symbol, signals[symbol], row[symbol].close,
                                       timestamp)
                    ELSE e,
                    k + 1, signals, row, timestamp)

\* "for symbol, df in data.items()": enter on a buy or sell when the symbol is flat;
\* an exception of generate_signal leaves the loop where it stands
RECURSIVE EnterSignals(_, _, _, _, _)
EnterSignals(e, k, signals, row, timestamp) ==
    IF k > Len(SymbolOrder) THEN e
    ELSE LET symbol == SymbolOrder[k]
         IN  IF signals[symbol] = "raise" THEN e
             ELSE EnterSignals(
                    IF signals[symbol] \in {"buy", "sell"}
                       /\ symbol \notin DOMAIN e.open_trades
                    THEN EnterPosition(e, symbol, signals[symbol], row[symbol].close,
                                       timestamp)
                    ELSE e,
                    k + 1, signals, row, timestamp)

\* mutant of CloseRemaining: run() goes to the results without the closing loop
CloseRemainingForgotten(e, k, row, timestamp) == e

\* the closing loop of run(): every open symbol at the last row's close
RECURSIVE CloseRemaining(_, _, _, _)
CloseRemaining(e, k, row, timestamp) ==
    IF k > Len(SymbolOrder) THEN e
    ELSE LET symbol == SymbolOrder[k]
         IN  CloseRemaining(
                IF symbol \in DOMAIN open_trades
                THEN ClosePosition(e, symbol, row[symbol].close, timestamp,
                                   "backtest_end")
                ELSE e,
                k + 1, row, timestamp)

\* the index of the data: row k carries timestamp k, but for the last row of a series
\* of full length, which may carry the timestamp of the row before it again
Stamps(k) == IF k = MaxBars - 1 THEN {k, k - 1} ELSE {k}

\* the loop's timestamp: the one of the row run() is at (timestamps[-1] after the loop)
Timestamp == IF timestamps = << >> THEN -1 ELSE timestamps[Len(timestamps)]

SetEngine(e) ==
    /\ capital' = e.capital
    /\ trades' = e.trades
    /\ open_trades' = e.open_trades
    /\ positions' = e.positions
    /\ fills' = e.fills

Init ==
    /\ cfg \in Configs
    /\ capital = InitialCapital
    /\ trades = << >>
    /\ open_trades = EmptyDict
    /\ equity_curve = <<InitialCapital>>
    /\ timestamps = << >>
    /\ positions = EmptyDict
    /\ active_stops = EmptyDict
    /\ active_targets = EmptyDict
    /\ pc = "bar"
    /\ i = 0
    /\ bar = NoRow
    /\ fills = << >>
    /\ bar_open = EmptyDict
    /\ call = NoCall
    /\ ret = NoRet

\* the data of the run: any rows, MaxBars of them or fewer, for the first call of
\* run(); for the second the series the first was given
DataLen ==
    CASE call.fn = "run" -> call.rows
      [] call.fn = "optimize" -> WarmUp + Len(call.data)
      [] OTHER -> MaxBars
DataRows ==
    CASE call.fn = "run" -> {call.row}
      [] call.fn = "optimize" ->
            {call.data[IF i < WarmUp THEN 1 ELSE i - WarmUp + 1]}
      [] OTHER -> Rows
\* the index of the data: a sweep's is one index, read by every combination
DataStamps(k) == IF call.fn = "optimize" THEN {k} ELSE Stamps(k)
\* the strategy's answers on a row: any for a strategy the caller wrote; in a sweep the
\* one the combination's strategy is made for
StrategyOutcomes ==
    IF call.fn = "optimize"
    THEN {[s \in Symbols |-> call.combinations[call.k].signal]}
    ELSE [Symbols -> Outcomes]

\* the head of the bar loop: the equity sample and the timestamp of bar i
MarkToMarket ==
    /\ pc = "bar"
    /\ i < DataLen
    /\ \E row \in DataRows :
        /\ bar' = row
        /\ equity_curve' = Append(equity_curve, CalculateEquity(Engine, row))
    /\ \E timestamp \in DataStamps(i) : timestamps' = Append(timestamps, timestamp)
    /\ bar_open' = open_trades
    /\ pc' = "exits"
    /\ UNCHANGED <<call, ret, cfg, capital, trades, open_trades, positions, active_stops,
                   active_targets, i, fills>>

\* "Check open positions"
CheckOpenPositions ==
    /\ pc = "exits"
    /\ LET st == CheckOpenTrades([e |-> Engine, stops |-> active_stops,
                                  targets |-> active_targets], 1, bar, Timestamp)
       IN  /\ SetEngine(st.e)
           /\ active_stops' = st.stops
           /\ active_targets' = st.targets
    /\ pc' = "entries"
    /\ UNCHANGED <<call, ret, cfg, equity_curve, timestamps, i, bar, bar_open>>

\* mutant of CheckNewEntries: the warm-up ends one bar early
CheckNewEntriesOneEarly ==
    /\ pc = "entries"
    /\ IF i < WarmUp - 1
       THEN /\ UNCHANGED <<capital, trades, open_trades, positions, fills, ret>>
            /\ i' = i + 1
            /\ pc' = "bar"
       ELSE \E signals \in StrategyOutcomes :
                /\ SetEngine(EnterSignals(Engine, 1, signals, bar, Timestamp))
                /\ ret' = [raised |-> \E s \in Symbols : signals[s] = "raise",
                           value |-> signals]
                /\ IF \E s \in Symbols : signals[s] = "raise"
                   THEN pc' = "raised" /\ i' = i
                   ELSE pc' = "bar" /\ i' = i + 1
    /\ UNCHANGED <<call, cfg, equity_curve, timestamps, active_stops,
                   active_targets, bar, bar_open>>

\* "Check for new entries"; the strategy's answer is any signal, or an exception,
\* which nothing in run() catches: it ends the run in the caller's hands
CheckNewEntries ==
    /\ pc = "entries"
    /\ IF i < WarmUp
       THEN /\ UNCHANGED <<capital, trades, open_trades, positions, fills, ret>>
            /\ i' = i + 1
            /\ pc' = "bar"
       ELSE \E signals \in StrategyOutcomes :
                /\ SetEngine(EnterSignals(Engine, 1, signals, bar, Timestamp))
                /\ ret' = [raised |-> \E s \in Symbols : signals[s] = "raise",
                           value |-> signals]
                /\ IF \E s \in Symbols : signals[s] = "raise"
                   THEN pc' = "raised" /\ i' = i
                   ELSE pc' = "bar" /\ i' = i + 1
    /\ UNCHANGED <<call, cfg, equity_curve, timestamps, active_stops,
                   active_targets, bar, bar_open>>

\* the data is exhausted: "Close any remaining open positions at end", then the results
EndOfData ==
    /\ pc = "bar"
    /\ call # NoCall => i = DataLen
    /\ SetEngine(CloseRemaining(Engine, 1, bar, Timestamp))
    /\ bar_open' = open_trades
    /\ pc' = "done"
    /\ UNCHANGED <<call, ret, cfg, equity_curve, timestamps, active_stops, active_targets, i, bar>>

\* lengths of the series run() is called on a second time: one row, and the warm-up
\* with one row past it
RerunLengths == {1, WarmUp + 1}

\* run() is called again, on the same data, on the engine that has returned: it makes
\* new managers and starts its loop at the first row; capital, trades, equity_curve
\* and timestamps are assigned in __init__ only and stay as the run before left them.
\* Of a series no longer than the warm-up and one row, the run before has read the
\* last row only: the series with that row at every index is one it can have been
\* given, and it is the one the second run is given.
RunAgain ==
    /\ pc = "done"
    /\ call = NoCall
    /\ Len(timestamps) \in RerunLengths
    /\ call' = [fn |-> "run", rows |-> Len(timestamps), row |-> bar]
    /\ active_stops' = EmptyDict
    /\ active_targets' = EmptyDict
    /\ pc' = "bar"
    /\ i' = 0
    /\ UNCHANGED <<ret, cfg, capital, trades, open_trades, equity_curve, timestamps,
                   positions, bar, fills, bar_open>>

Next ==
    \/ RunAgain
    \/ MarkToMarket
    \/ CheckOpenPositions
    \/ CheckNewEntries
    \/ EndOfData

Spec == Init /\ [][Next]_vars

----------------------------------------------------------------------------
(* The handlers called one at a time.  The caller owns the managers it passes to
   _check_exits, registers a position with them when the engine has opened it and
   removes it when the engine has closed it (src/src/main.py, _enter_position and
   _exit_position). *)

InitUnit ==
    /\ cfg \in Configs
    /\ capital = InitialCapital
    /\ trades = << >>
    /\ open_trades = EmptyDict
    /\ equity_curve = <<InitialCapital>>
    /\ timestamps = << >>
    /\ positions = EmptyDict
    /\ active_stops = EmptyDict
    /\ active_targets = EmptyDict
    /\ pc = "unit"
    /\ i = 0
    /\ bar = NoRow
    /\ fills = << >>
    /\ bar_open = EmptyDict
    /\ call = NoCall
    /\ ret = NoRet

\* positions opened so far
Entries == Len(trades) + Cardinality(DOMAIN open_trades)

\* _enter_position, then set_stop_loss and set_take_profit for the trade it opened
CallEnter(symbol, signal, price) ==
    /\ pc = "unit"
    /\ i < MaxCalls
    /\ Entries < MaxEntries
    /\ symbol \notin DOMAIN open_trades
    /\ symbol \notin DOMAIN active_stops
    /\ LET e == EnterPosition(Engine, symbol, signal, price, i)
       IN  /\ SetEngine(e)
           /\ IF symbol \in DOMAIN e.open_trades
              THEN LET t == e.open_trades[symbol]
                   IN  /\ active_stops' =
                            SetStopLoss(active_stops, symbol, t.entry_price, t.side)
                       /\ active_targets' =
                            SetTakeProfit(active_targets, symbol, t.entry_price,
                                          t.stop_loss, t.side)
              ELSE UNCHANGED <<active_stops, active_targets>>
    /\ i' = i + 1
    /\ UNCHANGED <<call, ret, cfg, equity_curve, timestamps, pc, bar, bar_open>>

\* _check_exits(symbol, price, timestamp, sl_manager, tp_manager)
CallCheckExits(symbol, price) ==
    /\ pc = "unit"
    /\ i < MaxCalls
    /\ symbol \in DOMAIN open_trades
    /\ LET st == CheckExits(Engine, active_stops, active_targets, symbol, price, i)
       IN  /\ SetEngine(st.e)
           /\ active_stops' = st.stops
           /\ active_targets' = st.targets
    /\ i' = i + 1
    /\ bar_open' = open_trades
    /\ UNCHANGED <<call, ret, cfg, equity_curve, timestamps, pc, bar>>

\* _close_position(symbol, price, timestamp, "backtest_end")
CallClose(symbol, price) ==
    /\ pc = "unit"
    /\ i < MaxCalls
    /\ symbol \in DOMAIN open_trades
    /\ SetEngine(ClosePosition(Engine, symbol, price, i, "backtest_end"))
    /\ i' = i + 1
    /\ bar_open' = open_trades
    /\ UNCHANGED <<call, ret, cfg, equity_curve, timestamps, active_stops, active_targets, pc, bar>>

\* sl_manager.update_stop_loss(symbol, price)
CallUpdateStop(symbol, price) ==
    /\ pc = "unit"
    /\ symbol \in DOMAIN active_stops
    /\ active_stops' = UpdateStopLoss(active_stops, symbol, price)
    /\ UNCHANGED <<call, ret, cfg, capital, trades, open_trades, equity_curve, timestamps,
                   positions, active_targets, pc, i, bar, fills, bar_open>>

\* remove_stop_loss and remove_take_profit once the position is closed
CallRemove(symbol) ==
    /\ pc = "unit"
    /\ symbol \notin DOMAIN open_trades
    /\ symbol \in DOMAIN active_stops
    /\ active_stops' = RemoveStopLoss(active_stops, symbol)
    /\ active_targets' = RemoveTakeProfit(active_targets, symbol)
    /\ UNCHANGED <<call, ret, cfg, capital, trades, open_trades, equity_curve, timestamps,
                   positions, pc, i, bar, fills, bar_open>>

NextUnit ==
    \/ \E symbol \in Symbols, signal \in {"buy", "sell"}, price \in EntryPrices :
            CallEnter(symbol, signal, price)
    \/ \E symbol \in Symbols, price \in ExitPrices : CallCheckExits(symbol, price)
    \/ \E symbol \in Symbols, price \in ExitPrices : CallClose(symbol, price)
    \/ \E symbol \in Symbols, price \in ExitPrices : CallUpdateStop(symbol, price)
    \/ \E symbol \in Symbols : CallRemove(symbol)

SpecUnit == InitUnit /\ [][NextUnit]_vars

----------------------------------------------------------------------------
(* PerformanceMetrics.  A metrics object m holds the four arguments of the
   constructor: trades, initial_capital, equity_curve, timestamps.  Money is in the
   units of the curve, a timestamp is a number of hours.  A quotient the code leaves
   as a float is kept exact, as the pair of its numerator and denominator. *)

\* returns are kept to five decimals
ReturnScale == 100 * 1000
\* max_drawdown_percent is kept to three decimals of a percent
PercentScale == 100 * 1000
\* sharpe_ratio: "(1 + risk_free_rate) ** (1/365) - 1" at the default 0.02, in ReturnScale
DailyRiskFree == 5
\* timedelta.days: hours of one day
DayHours == 24

Frac(num, den) == [num |-> num, den |-> den]
\* the sentinels: 0, and float('inf')
Zero == Frac(0, 1)
Infinity == Frac(1, 0)

RECURSIVE SumSeq(_)
SumSeq(xs) == IF xs = << >> THEN 0 ELSE Head(xs) + SumSeq(Tail(xs))

\* np.max
RECURSIVE SeqMax(_)
SeqMax(xs) == IF Len(xs) = 1 THEN xs[1] ELSE Max(Head(xs), SeqMax(Tail(xs)))

\* np.maximum.accumulate
RECURSIVE MaximumAccumulate(_)
MaximumAccumulate(xs) ==
    IF Len(xs) <= 1 THEN xs
    ELSE LET front == MaximumAccumulate(SubSeq(xs, 1, Len(xs) - 1))
         IN  Append(front, Max(front[Len(front)], xs[Len(xs)]))

\* _calculate_returns: np.diff(equity) / equity[:-1]
CalculateReturns(m) ==
    IF Len(m.equity_curve) < 2 THEN << >>
    ELSE [k \in 1..(Len(m.equity_curve) - 1) |->
            ((m.equity_curve[k + 1] - m.equity_curve[k]) * ReturnScale)
                \div m.equity_curve[k]]

\* np.mean, rounded down to the grid
Mean(xs) == SumSeq(xs) \div Len(xs)

\* np.std squared: the mean of the squared deviations from the mean
Variance(xs) ==
    SumSeq([k \in 1..Len(xs) |-> ((xs[k] - Mean(xs)) * (xs[k] - Mean(xs))) \div Len(xs)])

TotalReturn(m) ==
    IF m.equity_curve = << >> THEN 0
    ELSE m.equity_curve[Len(m.equity_curve)] - m.initial_capital

\* (timestamps[-1] - timestamps[0]).days
Days(m) == (m.timestamps[Len(m.timestamps)] - m.timestamps[1]) \div DayHours

\* annualized_return is left by an exception: equity_curve[-1] of an empty curve
\* (IndexError), or equity_curve[-1] / initial_capital with initial_capital 0
\* (ZeroDivisionError)
AnnualizedReturnRaises(m) ==
    /\ Len(m.timestamps) >= 2
    /\ Days(m) # 0
    /\ (m.equity_curve = << >> \/ m.initial_capital = 0)

\* 0 as annualized_return returns it
AnnualZero == [num |-> 0, den |-> 1, days |-> 0]

\* (total_return_ratio ** (1 / years) - 1) * 100, kept as the ratio and the days
AnnualizedReturn(m) ==
    IF Len(m.timestamps) < 2 THEN AnnualZero
    ELSE IF Days(m) = 0 THEN AnnualZero
    ELSE [num |-> m.equity_curve[Len(m.equity_curve)], den |-> m.initial_capital,
          days |-> Days(m)]

ExcessReturns(m) ==
    LET returns == CalculateReturns(m)
    IN  [k \in 1..Len(returns) |-> returns[k] - DailyRiskFree]

\* mean / std of the excess returns (annualized by sqrt(365)), kept as the mean and
\* the variance
SharpeRatio(m) ==
    LET excess_returns == ExcessReturns(m)
    IN  IF CalculateReturns(m) = << >> THEN Zero
        ELSE IF Variance(excess_returns) = 0 THEN Zero
        ELSE Frac(Mean(excess_returns), Variance(excess_returns))

\* mean of the excess returns / std of the negative ones, kept as the mean and the
\* variance
SortinoRatio(m) ==
    LET excess_returns == ExcessReturns(m)
        downside_returns == SelectSeq(excess_returns, LAMBDA x : x < 0)
    IN  IF CalculateReturns(m) = << >> THEN Zero
        ELSE IF downside_returns = << >> THEN Zero
        ELSE IF Variance(downside_returns) = 0 THEN Zero
        ELSE Frac(Mean(excess_returns), Variance(downside_returns))

\* mutant of MaxDrawdown: every sample is measured from the top of the whole curve
MaxDrawdownFromTop(m) ==
    IF m.equity_curve = << >> THEN 0
    ELSE LET equity == m.equity_curve
             drawdown == [k \in 1..Len(equity) |-> SeqMax(equity) - equity[k]]
         IN  SeqMax(drawdown)

MaxDrawdown(m) ==
    IF m.equity_curve = << >> THEN 0
    ELSE LET equity == m.equity_curve
             running_max == MaximumAccumulate(equity)
             drawdown == [k \in 1..Len(equity) |-> running_max[k] - equity[k]]
         IN  SeqMax(drawdown)

MaxDrawdownPercent(m) ==
    IF m.equity_curve = << >> THEN 0
    ELSE LET equity == m.equity_curve
             running_max == MaximumAccumulate(equity)
             drawdown_pct ==
                [k \in 1..Len(equity) |->
                    ((running_max[k] - equity[k]) * PercentScale) \div running_max[k]]
         IN  SeqMax(drawdown_pct)

TotalTrades(m) == Len(m.trades)

\* [trade.pnl for trade in self.trades if trade.pnl > 0]
Wins(m) ==
    LET winners == SelectSeq(m.trades, LAMBDA t : t.pnl > 0)
    IN  [k \in 1..Len(winners) |-> winners[k].pnl]

\* [trade.pnl for trade in self.trades if trade.pnl < 0]
Losses(m) ==
    LET losers == SelectSeq(m.trades, LAMBDA t : t.pnl < 0)
    IN  [k \in 1..Len(losers) |-> losers[k].pnl]

WinRate(m) ==
    IF TotalTrades(m) = 0 THEN Zero
    ELSE Frac(Len(Wins(m)) * 100, TotalTrades(m))

AverageWin(m) == IF Wins(m) = << >> THEN Zero ELSE Frac(SumSeq(Wins(m)), Len(Wins(m)))

AverageLoss(m) ==
    IF Losses(m) = << >> THEN Zero ELSE Frac(SumSeq(Losses(m)), Len(Losses(m)))

ProfitFactor(m) ==
    LET gross_profit == SumSeq(Wins(m))
        gross_loss == Abs(SumSeq(Losses(m)))
    IN  IF gross_loss = 0
        THEN IF gross_profit = 0 THEN Zero ELSE Infinity
        ELSE Frac(gross_profit, gross_loss)

RecoveryFactor(m) ==
    IF MaxDrawdown(m) = 0 THEN Zero ELSE Frac(TotalReturn(m), MaxDrawdown(m))

\* annualized_return() / max_dd_pct
CalmarRatio(m) ==
    IF MaxDrawdownPercent(m) = 0 THEN [annualized |-> AnnualZero, den |-> 1]
    ELSE [annualized |-> AnnualizedReturn(m), den |-> MaxDrawdownPercent(m)]

FinalEquity(m) ==
    IF m.equity_curve # << >> THEN m.equity_curve[Len(m.equity_curve)]
    ELSE m.initial_capital

TotalReturnPercent(m) ==
    IF m.initial_capital = 0 THEN Zero ELSE Frac(TotalReturn(m) * 100, m.initial_capital)

\* np.std of the returns, kept as the variance
Volatility(m) ==
    IF CalculateReturns(m) = << >> THEN 0 ELSE Variance(CalculateReturns(m))

\* [trade.pnl_percent for trade in self.trades if trade.pnl > 0], averaged
AverageWinPercent(m) ==
    LET winners == SelectSeq(m.trades, LAMBDA t : t.pnl > 0)
    IN  IF winners = << >> THEN Zero
        ELSE Frac(SumSeq([k \in 1..Len(winners) |-> winners[k].pnl_percent]),
                  Len(winners))

AverageLossPercent(m) ==
    LET losers == SelectSeq(m.trades, LAMBDA t : t.pnl < 0)
    IN  IF losers = << >> THEN Zero
        ELSE Frac(SumSeq([k \in 1..Len(losers) |-> losers[k].pnl_percent]),
                  Len(losers))

LargestWin(m) == IF Wins(m) = << >> THEN 0 ELSE SeqMax(Wins(m))

\* min(losses)
LargestLoss(m) ==
    IF Losses(m) = << >> THEN 0
    ELSE 0 - SeqMax([k \in 1..Len(Losses(m)) |-> 0 - Losses(m)[k]])

\* mean of exit_time - entry_time over the trades that carry both, in hours
AverageTradeDuration(m) ==
    LET timed == SelectSeq(m.trades, LAMBDA t : t.exit_time # -1 /\ t.entry_time # -1)
    IN  IF timed = << >> THEN Zero
        ELSE Frac(SumSeq([k \in 1..Len(timed) |->
                            timed[k].exit_time - timed[k].entry_time]),
                  Len(timed))

\* (win_rate * avg_win) - (loss_rate * |avg_loss|), kept as its three operands
Expectancy(m) ==
    [win_rate |-> WinRate(m), avg_win |-> AverageWin(m), avg_loss |-> AverageLoss(m)]

\* the metrics whose functions are called one at a time
MetricNames ==
    {"annualized_return", "sharpe_ratio", "sortino_ratio", "max_drawdown",
     "max_drawdown_percent", "win_rate", "average_win", "average_loss",
     "profit_factor", "recovery_factor", "calmar_ratio"}

\* the function of a name raises on the object
MetricRaises(name, m) ==
    CASE name = "annualized_return" -> AnnualizedReturnRaises(m)
      [] name = "calmar_ratio" -> MaxDrawdownPercent(m) # 0 /\ AnnualizedReturnRaises(m)
      [] name = "calculate_all_metrics" -> AnnualizedReturnRaises(m)
      [] OTHER -> FALSE

CalculateAllMetrics(m) ==
    [total_return |-> TotalReturn(m),
     total_return_pct |-> TotalReturnPercent(m),
     annualized_return |-> AnnualizedReturn(m),
     cagr |-> AnnualizedReturn(m),
     sharpe_ratio |-> SharpeRatio(m),
     sortino_ratio |-> SortinoRatio(m),
     max_drawdown |-> MaxDrawdown(m),
     max_drawdown_pct |-> MaxDrawdownPercent(m),
     volatility |-> Volatility(m),
     annualized_volatility |-> Volatility(m),
     total_trades |-> TotalTrades(m),
     winning_trades |-> Len(Wins(m)),
     losing_trades |-> Len(Losses(m)),
     win_rate |-> WinRate(m),
     avg_win |-> AverageWin(m),
     avg_loss |-> AverageLoss(m),
     avg_win_pct |-> AverageWinPercent(m),
     avg_loss_pct |-> AverageLossPercent(m),
     profit_factor |-> ProfitFactor(m),
     largest_win |-> LargestWin(m),
     largest_loss |-> LargestLoss(m),
     avg_trade_duration |-> AverageTradeDuration(m),
     expectancy |-> Expectancy(m),
     recovery_factor |-> RecoveryFactor(m),
     calmar_ratio |-> CalmarRatio(m),
     final_equity |-> FinalEquity(m),
     initial_capital |-> m.initial_capital]

\* the value the function of a name returns
Metric(name, m) ==
    CASE name = "annualized_return" -> AnnualizedReturn(m)
      [] name = "sharpe_ratio" -> SharpeRatio(m)
      [] name = "sortino_ratio" -> SortinoRatio(m)
      [] name = "max_drawdown" -> MaxDrawdown(m)
      [] name = "max_drawdown_percent" -> MaxDrawdownPercent(m)
      [] name = "win_rate" -> WinRate(m)
      [] name = "average_win" -> AverageWin(m)
      [] name = "average_loss" -> AverageLoss(m)
      [] name = "profit_factor" -> ProfitFactor(m)
      [] name = "recovery_factor" -> RecoveryFactor(m)
      [] name = "calmar_ratio" -> CalmarRatio(m)
      [] OTHER -> CalculateAllMetrics(m)

----------------------------------------------------------------------------
(* StrategyOptimizer.optimize *)

\* combinations one sweep tests
MaxCombinations == 3

\* param_ranges: one parameter, the signal the strategy gives on every row it is asked
\* about, or the exception it raises there; its list of values is the list of the
\* combinations, in the caller's order and with the caller's repetitions
SweepParams == {[signal |-> o] : o \in {"buy", "sell", "raise"}}
RECURSIVE Combinations(_)
Combinations(n) ==
    IF n = 0 THEN {<< >>}
    ELSE Combinations(n - 1) \cup
         {Append(cs, p) : cs \in {c \in Combinations(n - 1) : Len(c) = n - 1},
                          p \in SweepParams}

\* data: the rows past the warm-up; the rows of the warm-up are as the first of them
SweepRow(c) == [s \in Symbols |-> [close |-> c, high |-> c, low |-> c]]
SweepData ==
    { <<SweepRow(10000), SweepRow(11000)>>,
      <<SweepRow(10000), SweepRow(9000), SweepRow(10300)>> }

SweepCalls ==
    { [fn |-> "optimize", combinations |-> cs, data |-> d, k |-> 1, results |-> << >>] :
        cs \in Combinations(MaxCombinations), d \in SweepData }

\* the optimizer is constructed and optimize is called: no engine is made yet
InitSweep ==
    /\ cfg \in Configs
    /\ call \in SweepCalls
    /\ capital = InitialCapital
    /\ trades = << >>
    /\ open_trades = EmptyDict
    /\ equity_curve = <<InitialCapital>>
    /\ timestamps = << >>
    /\ positions = EmptyDict
    /\ active_stops = EmptyDict
    /\ active_targets = EmptyDict
    /\ pc = "sweep"
    /\ i = 0
    /\ bar = NoRow
    /\ fills = << >>
    /\ bar_open = EmptyDict
    /\ ret = NoRet

\* mutant of NextCombination: one engine and one strategy serve every combination
NextCombinationSameEngine ==
    /\ pc = "sweep"
    /\ call.k <= Len(call.combinations)
    /\ active_stops' = EmptyDict
    /\ active_targets' = EmptyDict
    /\ pc' = "bar"
    /\ i' = 0
    /\ UNCHANGED <<capital, trades, open_trades, equity_curve, timestamps, positions,
                   fills, bar_open, bar, call, ret, cfg>>

\* "strategy = self.strategy_class(params)", "engine = BacktestEngine(strategy, ...)",
\* and engine.run is entered: it makes its managers
NextCombination ==
    /\ pc = "sweep"
    /\ call.k <= Len(call.combinations)
    /\ capital' = InitialCapital
    /\ trades' = << >>
    /\ open_trades' = EmptyDict
    /\ equity_curve' = <<InitialCapital>>
    /\ timestamps' = << >>
    /\ positions' = EmptyDict
    /\ fills' = << >>
    /\ bar_open' = EmptyDict
    /\ active_stops' = EmptyDict
    /\ active_targets' = EmptyDict
    /\ pc' = "bar"
    /\ i' = 0
    /\ UNCHANGED <<bar, call, ret, cfg>>

\* what run() returns, as the object its metrics are computed from, and the score
\* under metric = 'total_return'
RunResults ==
    [trades |-> trades, initial_capital |-> InitialCapital,
     equity_curve |-> equity_curve, timestamps |-> timestamps]

\* engine.run returned: "self.results.append(result_entry)"
StoreResult ==
    /\ pc = "done"
    /\ call.fn = "optimize"
    /\ call' = [call EXCEPT
                  !.results = Append(@, [parameters |-> call.combinations[call.k],
                                         score |-> TotalReturn(RunResults),
                                         results |-> RunResults]),
                  !.k = @ + 1]
    /\ pc' = "sweep"
    /\ UNCHANGED <<capital, trades, open_trades, equity_curve, timestamps, positions,
                   active_stops, active_targets, i, bar, fills, bar_open, ret, cfg>>

\* engine.run raised: "except Exception as e: ... continue"
SkipCombination ==
    /\ pc = "raised"
    /\ call.fn = "optimize"
    /\ call' = [call EXCEPT !.k = @ + 1]
    /\ pc' = "sweep"
    /\ UNCHANGED <<capital, trades, open_trades, equity_curve, timestamps, positions,
                   active_stops, active_targets, i, bar, fills, bar_open, ret, cfg>>

\* the loop is over: optimize returns, 'all_results' being self.results
OptimizeReturn ==
    /\ pc = "sweep"
    /\ call.k > Len(call.combinations)
    /\ pc' = "swept"
    /\ UNCHANGED <<capital, trades, open_trades, equity_curve, timestamps, positions,
                   active_stops, active_targets, i, bar, fills, bar_open, call, ret, cfg>>

NextSweep ==
    \/ NextCombination
    \/ MarkToMarket
    \/ CheckOpenPositions
    \/ CheckNewEntries
    \/ EndOfData
    \/ StoreResult
    \/ SkipCombination
    \/ OptimizeReturn

SpecSweep == InitSweep /\ [][NextSweep]_vars

----------------------------------------------------------------------------
(* Single calls.  SpecCalls starts with one function under call, its arguments
   drawn from small sets, and one step returns from it. *)

\* rows of the short series handed to the calls that take a DataFrame
SeriesLen == 4
SeriesBars == {[close |-> c, high |-> c, low |-> c] : c \in {9700, 10300}}
Series == [1..SeriesLen -> SeriesBars]

\* df.iloc[i]
BarAt(df, index) == df[index + 1]

\* mutant of HistoricalData: the slice runs one row further
HistoricalDataOneMore(df, index) == SubSeq(df, 1, Min(index + 2, Len(df)))

\* df.iloc[:i+1]
HistoricalData(df, index) == SubSeq(df, 1, Min(index + 1, Len(df)))

\* what one turn of run()'s loop at an index takes from the data of a symbol: the close
\* that values the equity and goes to _check_exits, the window that goes to
\* generate_signal and _enter_position, and the trade _enter_position makes of the
\* window on a buy and on a sell
ReadsAtBar(df, index) ==
    LET historical_data == HistoricalData(df, index)
        current_price == historical_data[Len(historical_data)].close
    IN  [close |-> BarAt(df, index).close,
         historical_data |-> historical_data,
         entered |-> [signal \in {"buy", "sell"} |->
                        EnterPosition(Engine, "BTCUSDT", signal, current_price,
                                      index).open_trades]]

ReadCalls == {[fn |-> "read_bar", df |-> df, i |-> k] : df \in Series, k \in 0..(SeriesLen - 1)}

\* calls of check_take_profit_hit in a row on one registered position
MaxTpCalls == 3
TpCheckPrices == {9300, 9500, 9700, 9900, 10100, 10300, 10500, 10700}
TpCheckCalls ==
    {[fn |-> "check_take_profit_hit", symbol |-> "BTCUSDT", side |-> sd,
      entry_price |-> 10000, stop_loss |-> st] :
        sd \in {"long", "short"}, st \in {9800, 10200}}

\* take-profit configs with the levels listed farthest first
FarFirstConfigs ==
    { [type |-> "multi_level", ratio |-> 2,
       levels |-> << [percentage |-> 600, exit_size |-> 3300],
                     [percentage |-> 400, exit_size |-> 3300],
                     [percentage |-> 200, exit_size |-> 3400] >>] }

\* arguments of calculate_position_size; capital 10000, entry 50000, stop 49000,
\* leverage 10 of the test is among them, the capital in price * lot
SizePrices ==
    {<<50000, 49000>>, <<50000, 49950>>, <<50000, 50000>>, <<50000, 51000>>,
     <<10000, 9000>>, <<10000, 9950>>, <<10000, 10000>>, <<10000, 11000>>}
SizeStats ==
    {NoStats} \cup
    {[given |-> TRUE, win_rate |-> w, avg_win |-> a, avg_loss |-> l] :
        w \in {0, 5000, 6000, One}, a \in {0, 105, 200}, l \in {0, 100}}
SizeCalls ==
    {[fn |-> "calculate_position_size", capital |-> c, entry_price |-> p[1],
      stop_loss |-> p[2], leverage |-> l, stats |-> st] :
        c \in {InitialCapital, 10 * InitialCapital}, p \in SizePrices, l \in {1, 10},
        st \in SizeStats}

\* position sizing configs: the two methods, a method the sizer does not know, and
\* quarter and full Kelly
SizeConfigs ==
    {[commission |-> 6, slippage |-> 5, leverage |-> 1,
      method |-> m, risk_per_trade |-> 200, kelly_fraction |-> k,
      stop |-> CHOOSE sc \in StopConfigs : sc.type = "percentage",
      take_profit |-> CHOOSE t \in TakeProfitConfigs : t.type = "risk_reward"] :
        m \in {"fixed_risk", "kelly_criterion", "martingale"}, k \in {2500, One}}

\* arguments of validate_position_size, sizes in lots; 0.5 at 50000 with capital 10000
\* and leverage 10 of the test is among them
ValidateCalls ==
    {[fn |-> "validate_position_size", position_size |-> z, entry_price |-> p,
      capital |-> c, leverage |-> l, min_order_size |-> mn, max_order_size |-> mx] :
        z \in {0, 1, 50, 500, 2000, 5000}, p \in {10000, 50000},
        c \in {InitialCapital, 10 * InitialCapital}, l \in {1, 10},
        mn \in {MinOrderLots, 10 * MinOrderLots},
        mx \in {NoMaxOrder, 1000, 3000}}

\* arguments of calculate_take_profit; entry 50000, stop 49000, long of the test is
\* among them
TargetCalls ==
    {[fn |-> "calculate_take_profit", entry_price |-> p[1], stop_loss |-> p[2],
      side |-> sd] : p \in SizePrices, sd \in {"long", "short"}}

\* take-profit configs: risk_reward with and without a ratio, with and without
\* partial exits, multi_level with and without levels, and a type the manager does
\* not know
TargetConfigs ==
    { [type |-> "risk_reward"],
      [type |-> "risk_reward", ratio |-> 2],
      [type |-> "risk_reward", ratio |-> 3],
      [type |-> "risk_reward", ratio |-> 3, partial_exits |-> << >>],
      [type |-> "risk_reward", ratio |-> 3,
       partial_exits |-> << [ratio |-> 1, level |-> 5000], [level |-> 5000] >>],
      [type |-> "multi_level"],
      [type |-> "fibonacci", ratio |-> 3] } \cup TakeProfitConfigs

\* samples of the equity curve handed to PerformanceMetrics
CurveLen == 4
CurveValues == {9800, 10000, 10500, 11000}
MetricCurves == UNION {[1..n -> CurveValues] : n \in 0..CurveLen}

\* a closed trade of the ledger with its realized PnL
LedgerTrade(pnl) ==
    [NewTrade("BTCUSDT", "long", 0, 10000, 100, 9800, << <<10400, One>> >>) EXCEPT
        !.exit_time = 5, !.exit_price = 10000 + pnl \div 100, !.pnl = pnl,
        !.pnl_percent = (pnl * 100) \div (10000 * 100),
        !.exit_reason = "backtest_end", !.remaining_size = 0]
LedgerPnls == {-50000, 0, 80000}
MetricLedgers ==
    {<< >>} \cup {<<LedgerTrade(p)>> : p \in LedgerPnls}
        \cup {<<LedgerTrade(p), LedgerTrade(q)>> : p \in LedgerPnls, q \in LedgerPnls}

\* timestamps in hours: none, one, two within a day, two and three over days
MetricStamps == {<< >>, <<0>>, <<0, 12>>, <<0, 48>>, <<0, 24, 72>>}

\* calls of one function of a PerformanceMetrics object, and of calculate_all_metrics
\* twice in a row
MaxMetricCalls == 2
MetricCalls ==
    {[fn |-> "metric", name |-> n, initial_capital |-> c] :
        n \in MetricNames \cup {"calculate_all_metrics"}, c \in {0, 10000}}

\* the trades, equity curve and timestamps the object of a call is constructed with
MetricInputs(c) ==
    IF c.fn # "metric" THEN {<< << >>, <<InitialCapital>>, << >> >>}
    ELSE IF c.name = "calculate_all_metrics"
    THEN MetricLedgers \X MetricCurves \X MetricStamps
    ELSE IF c.name \in {"annualized_return", "calmar_ratio"}
    THEN {<< >>} \X MetricCurves \X MetricStamps
    ELSE IF c.name \in {"win_rate", "average_win", "average_loss", "profit_factor"}
    THEN MetricLedgers \X {<<10000>>} \X {<< >>}
    ELSE {<< >>} \X MetricCurves \X {<< >>}

\* frames handed to calculate_stop_loss: none, and around 50000 with ranges that
\* alternate, of fewer rows than the period of 14, of 14 to 19 rows, of 20 and more
StopDataLens == {0, 13, 14, 19, 20, 24, 25, 30}
StopData ==
    {[k \in 1..n |-> [close |-> 50000 + 10 * (k % 3),
                      high |-> 50000 + 10 * (k % 3) + d + 20 * (k % 2),
                      low |-> 50000 + 10 * (k % 3) - d]] :
        n \in StopDataLens, d \in {50, 150}}
StopCalls ==
    {[fn |-> "calculate_stop_loss", entry_price |-> 50000, side |-> sd,
      market_data |-> md] : sd \in {"long", "short"}, md \in StopData}

\* stop configs: atr as the test has it, atr with nothing else named, atr with a
\* period longer than 20 rows, and the two other types
StopCallConfigs ==
    { [type |-> "atr", multiplier |-> 2, atr_period |-> 14],
      [type |-> "atr"],
      [type |-> "atr", multiplier |-> 3, atr_period |-> 25, value |-> 300] }
        \cup StopConfigs

Calls ==
    ReadCalls \cup TpCheckCalls \cup SizeCalls \cup ValidateCalls \cup TargetCalls
        \cup MetricCalls \cup StopCalls

\* the configs a call is made under
CallConfigs(c) ==
    IF c.fn = "check_take_profit_hit"
    THEN {[commission |-> 6, slippage |-> 5, leverage |-> 1,
           method |-> "fixed_risk", risk_per_trade |-> 200, kelly_fraction |-> 2500,
           stop |-> CHOOSE sc \in StopConfigs : sc.type = "percentage",
           take_profit |-> t] : t \in TakeProfitConfigs \cup FarFirstConfigs}
    ELSE IF c.fn \in {"calculate_position_size", "validate_position_size"}
    THEN SizeConfigs
    ELSE IF c.fn = "metric"
    THEN {CHOOSE c0 \in Configs : TRUE}
    ELSE IF c.fn = "calculate_stop_loss"
    THEN {[commission |-> 6, slippage |-> 5, leverage |-> 1,
           method |-> "fixed_risk", risk_per_trade |-> 200, kelly_fraction |-> 2500,
           stop |-> sc,
           take_profit |-> CHOOSE t \in TakeProfitConfigs : t.type = "risk_reward"] :
            sc \in StopCallConfigs}
    ELSE IF c.fn = "calculate_take_profit"
    THEN {[commission |-> 6, slippage |-> 5, leverage |-> 1,
           method |-> "fixed_risk", risk_per_trade |-> 200, kelly_fraction |-> 2500,
           stop |-> CHOOSE sc \in StopConfigs : sc.type = "percentage",
           take_profit |-> t] : t \in TargetConfigs}
    ELSE Configs

InitCalls ==
    /\ call \in Calls
    /\ cfg \in CallConfigs(call)
    /\ capital = InitialCapital
    /\ \E input \in MetricInputs(call) :
        /\ trades = input[1]
        /\ equity_curve = input[2]
        /\ timestamps = input[3]
    /\ open_trades = EmptyDict
    /\ positions = EmptyDict
    /\ active_stops = EmptyDict
    /\ active_targets =
            IF call.fn = "check_take_profit_hit"
            THEN SetTakeProfit(EmptyDict, call.symbol, call.entry_price, call.stop_loss,
                               call.side)
            ELSE EmptyDict
    /\ pc = "call"
    /\ i = 0
    /\ bar = NoRow
    /\ fills = << >>
    /\ bar_open = EmptyDict
    /\ ret = NoRet

\* the call returns a value
Return(value) ==
    /\ pc = "call"
    /\ ret' = [raised |-> FALSE, value |-> value]
    /\ pc' = "returned"
    /\ UNCHANGED <<call, cfg, capital, trades, open_trades, equity_curve, timestamps,
                   positions, active_stops, active_targets, i, bar, fills, bar_open>>

\* one turn of run()'s loop reads the data
ReadBar ==
    /\ call.fn = "read_bar"
    /\ Return(ReadsAtBar(call.df, call.i))

\* check_take_profit_hit(symbol, current_price) on the position set_take_profit
\* registered; ret keeps the price and the filled flags the call found
CheckTakeProfitHit ==
    /\ pc = "call"
    /\ call.fn = "check_take_profit_hit"
    /\ i < MaxTpCalls
    /\ \E current_price \in TpCheckPrices :
        /\ ret' = [raised |-> FALSE,
                   value |-> TpHitLevel(active_targets, call.symbol, current_price),
                   current_price |-> current_price,
                   filled |-> active_targets[call.symbol].filled]
        /\ active_targets' = TpAfterCheck(active_targets, call.symbol, current_price)
    /\ i' = i + 1
    /\ UNCHANGED <<call, cfg, capital, trades, open_trades, equity_curve, timestamps,
                   positions, active_stops, pc, bar, fills, bar_open>>

\* the call is left by an exception
Raise ==
    /\ pc = "call"
    /\ ret' = [raised |-> TRUE]
    /\ pc' = "returned"
    /\ UNCHANGED <<call, cfg, capital, trades, open_trades, equity_curve, timestamps,
                   positions, active_stops, active_targets, i, bar, fills, bar_open>>

\* position_sizer.calculate_position_size(capital, entry_price, stop_loss, leverage,
\* win_rate, avg_win, avg_loss)
CalculatePositionSizeCall ==
    /\ call.fn = "calculate_position_size"
    /\ IF CalculatePositionSizeRaises(call.stats)
       THEN Raise
       ELSE Return(CalculatePositionSize(call.capital, call.entry_price, call.stop_loss,
                                         call.leverage, call.stats))

\* position_sizer.validate_position_size(position_size, entry_price, capital, leverage,
\* min_order_size, max_order_size)
ValidatePositionSizeCall ==
    /\ call.fn = "validate_position_size"
    /\ Return(ValidatePositionSize(call.position_size, call.entry_price, call.capital,
                                   call.leverage, call.min_order_size,
                                   call.max_order_size))

\* tp_manager.calculate_take_profit(entry_price, stop_loss, side)
CalculateTakeProfitCall ==
    /\ call.fn = "calculate_take_profit"
    /\ Return(CalculateTakeProfit(call.entry_price, call.stop_loss, call.side))

\* PerformanceMetrics(trades, initial_capital, equity_curve, timestamps) over the
\* lists it was handed
Metrics ==
    [trades |-> trades, initial_capital |-> call.initial_capital,
     equity_curve |-> equity_curve, timestamps |-> timestamps]

\* one of the metric functions is called on the object
MetricCall ==
    /\ call.fn = "metric"
    /\ call.name \in MetricNames
    /\ IF MetricRaises(call.name, Metrics)
       THEN Raise
       ELSE Return(Metric(call.name, Metrics))

\* mutant of CalculateAllMetricsCall: the running maximum is accumulated in the curve
CalculateAllMetricsCallInPlace ==
    /\ pc = "call"
    /\ call.fn = "metric"
    /\ call.name = "calculate_all_metrics"
    /\ i < MaxMetricCalls
    /\ IF MetricRaises(call.name, Metrics)
       THEN ret' = [raised |-> TRUE]
       ELSE ret' = [raised |-> FALSE, value |-> CalculateAllMetrics(Metrics)]
    /\ equity_curve' = MaximumAccumulate(equity_curve)
    /\ i' = i + 1
    /\ UNCHANGED <<call, cfg, capital, trades, open_trades, timestamps,
                   positions, active_stops, active_targets, pc, bar, fills, bar_open>>

\* calculate_all_metrics() on the object, which stays for the next call; i counts the
\* calls made
CalculateAllMetricsCall ==
    /\ pc = "call"
    /\ call.fn = "metric"
    /\ call.name = "calculate_all_metrics"
    /\ i < MaxMetricCalls
    /\ IF MetricRaises(call.name, Metrics)
       THEN ret' = [raised |-> TRUE]
       ELSE ret' = [raised |-> FALSE, value |-> CalculateAllMetrics(Metrics)]
    /\ i' = i + 1
    /\ UNCHANGED <<call, cfg, capital, trades, open_trades, equity_curve, timestamps,
                   positions, active_stops, active_targets, pc, bar, fills, bar_open>>

\* sl_manager.calculate_stop_loss(entry_price, side, market_data)
CalculateStopLossCall ==
    /\ call.fn = "calculate_stop_loss"
    /\ Return(CalculateStopLoss(call.entry_price, call.side, call.market_data))

NextCalls ==
    \/ CalculateStopLossCall
    \/ MetricCall
    \/ CalculateAllMetricsCall
    \/ ReadBar
    \/ CheckTakeProfitHit
    \/ CalculatePositionSizeCall
    \/ ValidatePositionSizeCall
    \/ CalculateTakeProfitCall

SpecCalls == InitCalls /\ [][NextCalls]_vars

----------------------------------------------------------------------------
(* Properties *)

\* the fills of the trade of a symbol entered at a time
FillsOf(symbol, entry_time) ==
    SelectSeq(fills, LAMBDA f : f.symbol = symbol /\ f.entry_time = entry_time)

RECURSIVE SumSizes(_)
SumSizes(fs) == IF fs = << >> THEN 0 ELSE Head(fs).size + SumSizes(Tail(fs))

RECURSIVE SumPnl(_)
SumPnl(fs) == IF fs = << >> THEN 0 ELSE Head(fs).pnl + SumPnl(Tail(fs))

RECURSIVE SumCommission(_)
SumCommission(fs) ==
    IF fs = << >> THEN 0
    ELSE (Head(fs).size * Head(fs).price * cfg.commission) \div One
         + SumCommission(Tail(fs))

ExitFills(fs) == SelectSeq(fs, LAMBDA f : f.kind # "entry")

\* the close is at or through the trade's stop
StopThrough(t, close) ==
    IF t.side = "long" THEN close <= t.stop_loss ELSE close >= t.stop_loss

\* the trade that was open when the bar began left on this bar, whole, at its stop
StoppedOutOnBar(t) ==
    /\ t.symbol \notin DOMAIN open_trades
    /\ \E k \in 1..Len(trades) :
        /\ trades[k].symbol = t.symbol
        /\ trades[k].entry_time = t.entry_time
        /\ trades[k].exit_time = Timestamp
        /\ trades[k].exit_reason = "stop_loss"
        /\ trades[k].remaining_size = 0
    /\ \E k \in 1..Len(fills) :
        /\ fills[k].symbol = t.symbol
        /\ fills[k].entry_time = t.entry_time
        /\ fills[k].time = Timestamp
        /\ fills[k].kind = "final"
        /\ fills[k].ref = t.stop_loss
        /\ fills[k].size = t.remaining_size

\* C1: in run(), on every bar where a trade is open when the bar begins and the
\* bar's close is at or through the trade's stop, the whole remaining size is closed
\* on that bar at the stop price with reason stop_loss.
C1_StopLossOnBar ==
    pc = "entries" =>
        \A s \in DOMAIN bar_open :
            StopThrough(bar_open[s], bar[s].close) => StoppedOutOnBar(bar_open[s])

\* the bar's range reaches the trade's stop and one of its take-profit levels
RangeHitsBoth(t, b) ==
    IF t.side = "long"
    THEN /\ b.low <= t.stop_loss
         /\ \E k \in 1..Len(t.take_profit) : b.high >= t.take_profit[k][1]
    ELSE /\ b.high >= t.stop_loss
         /\ \E k \in 1..Len(t.take_profit) : b.low <= t.take_profit[k][1]

\* C2: on a bar whose high/low range reaches both the stop and a take-profit level
\* of an open trade, the trade leaves on that bar with reason stop_loss and no fill
\* of that bar carries a take-profit reason.
C2_StopLossWinsTie ==
    pc = "entries" =>
        \A s \in DOMAIN bar_open :
            RangeHitsBoth(bar_open[s], bar[s]) =>
                /\ StoppedOutOnBar(bar_open[s])
                /\ \A k \in 1..Len(fills) :
                    (fills[k].symbol = s /\ fills[k].time = Timestamp)
                        => fills[k].reason \in {"entry", "stop_loss"}

\* C3: every trade of the closed ledger has remaining_size 0, and the sizes passed to
\* Trade.close over its life add up to its original size.
C3_LedgerConservation ==
    \A k \in 1..Len(trades) :
        /\ trades[k].remaining_size = 0
        /\ SumSizes(ExitFills(FillsOf(trades[k].symbol, trades[k].entry_time)))
            = trades[k].size

\* a ledger trade that left in several exits: partial take-profits, then a last one
C3_Witness ==
    \E k \in 1..Len(trades) :
        /\ Len(ExitFills(FillsOf(trades[k].symbol, trades[k].entry_time))) >= 3
        /\ trades[k].exit_reason \in {"stop_loss", "backtest_end", "take_profit_final"}

\* C4: no step of the engine raises a trade's remaining_size or makes it negative.
C4_RemainingMonotone ==
    [][\A s \in DOMAIN open_trades :
            LET after == IF s \in DOMAIN open_trades'
                         THEN open_trades'[s]
                         ELSE trades'[Len(trades')]
            IN  /\ after.remaining_size <= open_trades[s].remaining_size
                /\ after.remaining_size >= 0]_vars

\* an open trade after a partial exit: part of it is left
C4_Witness ==
    \E s \in DOMAIN open_trades :
        /\ open_trades[s].remaining_size > 0
        /\ open_trades[s].remaining_size < open_trades[s].size

\* C5: while a position stays registered under stop type trailing, its stored stop
\* never falls (long) and never rises (short), whatever prices update_stop_loss gets.
C5_TrailingMonotone ==
    [][\A s \in (DOMAIN active_stops) \cap (DOMAIN active_stops') :
            active_stops[s].type = "trailing" =>
                IF active_stops[s].side = "long"
                THEN active_stops'[s].price >= active_stops[s].price
                ELSE active_stops'[s].price <= active_stops[s].price]_vars

\* a trailing stop that has moved from where set_stop_loss put it
C5_Witness ==
    \E s \in DOMAIN active_stops :
        /\ active_stops[s].type = "trailing"
        /\ active_stops[s].side = "short"
        /\ active_stops[s].price
            < Times(active_stops[s].entry_price, One + cfg.stop.initial_stop)

\* C6: when run() has returned no trade is open; a trade that was open after the last
\* bar is in the ledger, closed whole at the last bar's close (before slippage) with
\* reason backtest_end, and every trade ever opened is in the ledger.
C6_AllClosedAtEnd ==
    pc = "done" =>
        /\ DOMAIN open_trades = {}
        /\ \A s \in DOMAIN bar_open :
            \E k \in 1..Len(trades), f \in 1..Len(fills) :
                /\ trades[k].symbol = s
                /\ trades[k].entry_time = bar_open[s].entry_time
                /\ trades[k].exit_reason = "backtest_end"
                /\ trades[k].exit_time = Timestamp
                /\ trades[k].remaining_size = 0
                /\ fills[f].symbol = s
                /\ fills[f].kind = "final"
                /\ fills[f].ref = bar[s].close
                /\ fills[f].price = trades[k].exit_price
                /\ fills[f].size = bar_open[s].remaining_size
        /\ \A f \in 1..Len(fills) :
            fills[f].kind = "entry" =>
                \E k \in 1..Len(trades) :
                    /\ trades[k].symbol = fills[f].symbol
                    /\ trades[k].entry_time = fills[f].entry_time

\* run() has returned and closed a trade that the last bar left open
C6_Witness ==
    /\ pc = "done"
    /\ DOMAIN bar_open # {}
    /\ Len(trades) > 0

\* C7: cash is initial capital plus the sum of each exit's own PnL minus commission
\* on the notional of every fill.
C7_CashAccounting ==
    capital = InitialCapital + SumPnl(fills) - SumCommission(fills)

\* C8: every fill price is the price moved against the trader by the slippage:
\* up for a long entry and a short exit, down for a short entry and a long exit.
C8_SlippageAgainstTrader ==
    \A k \in 1..Len(fills) :
        LET f == fills[k]
            up == (f.kind = "entry") = (f.side = "long")
        IN  f.price = IF up THEN (f.ref * (One + cfg.slippage)) \div One
                            ELSE (f.ref * (One - cfg.slippage)) \div One

\* an entry, a partial exit and a stop-loss exit have all been filled
C8_Witness ==
    /\ \E k \in 1..Len(fills) : fills[k].kind = "partial"
    /\ \E k \in 1..Len(fills) : fills[k].reason = "stop_loss" /\ fills[k].side = "short"
    /\ \E k \in 1..Len(fills) : fills[k].reason = "backtest_end" /\ fills[k].side = "long"

\* C9: after run() over N bars the equity curve holds N samples, one for each of the
\* N timestamps, and the sample of a bar is cash plus unrealized PnL at its close.
C9_OneSamplePerBar ==
    /\ pc = "done" =>
        /\ Len(timestamps) = i
        /\ Len(equity_curve) = Len(timestamps)
    /\ pc = "exits" => equity_curve[Len(equity_curve)] = CalculateEquity(Engine, bar)

\* C11: what run() takes from the data at bar t is the same whatever is put in place
\* of a bar after t: the close it prices with, the window the signal is computed
\* from, and the stop, size and targets of the entry made on that window.
C11_NoLookAhead ==
    (pc = "returned" /\ call.fn = "read_bar") =>
        \A j \in (call.i + 2)..Len(call.df), b \in SeriesBars :
            ReadsAtBar([call.df EXCEPT ![j] = b], call.i) = ret.value

\* a bar in the middle of the series was read, with bars after it that differ from it
C11_Witness ==
    /\ pc = "returned"
    /\ call.fn = "read_bar"
    /\ call.i = 1
    /\ call.df[3] # call.df[2]
    /\ Len(ret.value.historical_data) = 2
    /\ DOMAIN ret.value.entered["buy"] # {}

\* C12: run() is never left through an exception of generate_signal: the bar counts
\* as Hold for the symbol and the loop goes on to the next bar and to the results.
C12_RaiseIsHold ==
    pc # "raised"

\* C13: run() simulates no bar of a series whose timestamps are not strictly
\* increasing, and returns no results for a series without rows.
C13_RejectsBadSeries ==
    /\ \A k \in 2..Len(timestamps) : timestamps[k - 1] < timestamps[k]
    /\ pc = "done" => timestamps # << >>

\* the levels a call of check_take_profit_hit found unfilled and reached by the price
ReachedLevels ==
    LET info == active_targets[call.symbol]
    IN  {k \in 1..Len(info.targets) :
            /\ ~ret.filled[k]
            /\ IF info.side = "long" THEN ret.current_price >= info.targets[k][1]
                                     ELSE ret.current_price <= info.targets[k][1]}

\* C14: a call of check_take_profit_hit marks at most one level filled, and when the
\* price has reached several unfilled levels it returns the one nearest to the entry
\* price, in whatever order the levels are listed.
C14_NearestLevelFirst ==
    (call.fn = "check_take_profit_hit" /\ ret # NoRet) =>
        LET info == active_targets[call.symbol]
            newly == {k \in 1..Len(info.filled) : info.filled[k] /\ ~ret.filled[k]}
        IN  /\ Cardinality(newly) <= 1
            /\ ReachedLevels = {} => ret.value = 0 /\ newly = {}
            /\ ReachedLevels # {} =>
                /\ newly = {ret.value}
                /\ ret.value \in ReachedLevels
                /\ \A m \in ReachedLevels :
                    Abs(info.targets[ret.value][1] - info.entry_price)
                        <= Abs(info.targets[m][1] - info.entry_price)

\* the exit fractions of a trade's targets, added up
RECURSIVE FractionSum(_)
FractionSum(targets) ==
    IF targets = << >> THEN 0 ELSE Head(targets)[2] + FractionSum(Tail(targets))

\* C15: a trade whose exit fractions add up to less than 1 is not closed by its last
\* take-profit level: it leaves the engine by a stop-loss or the end-of-run close only.
C15_RemainderStaysOpen ==
    \A k \in 1..Len(trades) :
        FractionSum(trades[k].take_profit) < One
            => trades[k].exit_reason \in {"stop_loss", "backtest_end"}

\* C16: under fixed_risk with entry_price # stop_loss the size returned is
\* min((capital x risk_per_trade / |entry - stop|) x leverage,
\*     capital x leverage / entry_price); capital 10000, entry 50000, stop 49000,
\* risk 2%, leverage 10 give 2.0 (2000 lots).
C16_FixedRiskSize ==
    (pc = "returned" /\ call.fn = "calculate_position_size"
        /\ cfg.method = "fixed_risk" /\ call.entry_price # call.stop_loss) =>
        /\ ~ret.raised
        /\ ret.value =
            Min((((call.capital * cfg.risk_per_trade) \div One)
                    \div Abs(call.entry_price - call.stop_loss)) * call.leverage,
                (call.capital * call.leverage) \div call.entry_price)
        /\ (call.capital = 10000000 /\ call.entry_price = 50000
                /\ call.stop_loss = 49000 /\ call.leverage = 10) => ret.value = 2000

\* the call of the test has returned 2.0
C16_Witness ==
    /\ pc = "returned"
    /\ call.fn = "calculate_position_size"
    /\ cfg.method = "fixed_risk"
    /\ call.capital = 10000000 /\ call.entry_price = 50000
    /\ call.stop_loss = 49000 /\ call.leverage = 10
    /\ ret.value = 2000

\* C17: with entry_price = stop_loss, calculate_position_size returns 0 under
\* fixed_risk and under kelly_criterion, and no division by zero leaves the call.
C17_ZeroRiskZeroSize ==
    (pc = "returned" /\ call.fn = "calculate_position_size"
        /\ cfg.method \in {"fixed_risk", "kelly_criterion"}
        /\ call.entry_price = call.stop_loss) =>
        /\ ~ret.raised
        /\ ret.value = 0

\* C18: under kelly_criterion with statistics that pass the checks, the risk fraction
\* applied to the capital lies in [0.01, 0.10], whatever the win rate and the ratio.
C18_KellyClamp ==
    (pc = "returned" /\ call.fn = "calculate_position_size"
        /\ cfg.method = "kelly_criterion" /\ ValidStats(call.stats) /\ ~ret.raised) =>
        /\ KellyPercent(call.stats) >= 100
        /\ KellyPercent(call.stats) <= 1000

\* C19: validate_position_size returns 0 for a size below min_order_size; otherwise
\* what it returns is no more than max_order_size when one is given, its margin
\* size x entry_price / leverage is no more than the capital, and a size within
\* every limit comes back unchanged.
C19_ValidatedSize ==
    (pc = "returned" /\ call.fn = "validate_position_size") =>
        /\ ~ret.raised
        /\ IF call.position_size < call.min_order_size
           THEN ret.value = 0
           ELSE /\ call.max_order_size # NoMaxOrder => ret.value <= call.max_order_size
                /\ (ret.value * call.entry_price) \div call.leverage <= call.capital
                /\ (/\ call.max_order_size # NoMaxOrder
                        => call.position_size <= call.max_order_size
                    /\ (call.position_size * call.entry_price) \div call.leverage
                        <= call.capital)
                    => ret.value = call.position_size

\* a size above the maximum, whose margin at the maximum is above the capital, has
\* come back cut to the capital
C19_Witness ==
    /\ pc = "returned"
    /\ call.fn = "validate_position_size"
    /\ call.position_size = 5000 /\ call.max_order_size = 3000
    /\ call.entry_price = 50000 /\ call.capital = 10000000 /\ call.leverage = 10
    /\ ret.value = 2000

\* C20: under type risk_reward with no partial exits configured, calculate_take_profit
\* returns one target with exit fraction 1.0, at entry + ratio x |entry - stop| for a
\* long and entry - ratio x |entry - stop| for a short, the ratio being 2.0 when the
\* config names none; entry 50000, stop 49000, ratio 2.0, long give 52000.
C20_RiskRewardTarget ==
    (pc = "returned" /\ call.fn = "calculate_take_profit"
        /\ cfg.take_profit.type = "risk_reward"
        /\ ("partial_exits" \in DOMAIN cfg.take_profit
                => cfg.take_profit.partial_exits = << >>)) =>
        LET ratio == IF "ratio" \in DOMAIN cfg.take_profit THEN cfg.take_profit.ratio
                     ELSE 2
            distance == ratio * Abs(call.entry_price - call.stop_loss)
        IN  /\ ~ret.raised
            /\ Len(ret.value) = 1
            /\ ret.value[1][2] = One
            /\ ret.value[1][1] = IF call.side = "long" THEN call.entry_price + distance
                                                        ELSE call.entry_price - distance
            /\ (call.entry_price = 50000 /\ call.stop_loss = 49000 /\ ratio = 2
                    /\ call.side = "long") => ret.value[1][1] = 52000

\* the call of the test, under a config that names no ratio, has returned 52000
C20_Witness ==
    /\ pc = "returned"
    /\ call.fn = "calculate_take_profit"
    /\ cfg.take_profit = [type |-> "risk_reward"]
    /\ call.entry_price = 50000 /\ call.stop_loss = 49000 /\ call.side = "long"
    /\ ret.value = << <<52000, One>> >>

\* the highest of the first k samples of the equity curve
PeakSoFar(k) ==
    CHOOSE p \in {equity_curve[j] : j \in 1..k} : \A j \in 1..k : p >= equity_curve[j]

\* C21: max_drawdown is the largest, over the samples of the equity curve, of the
\* running peak so far minus the sample, and 0 for an empty curve; the curve
\* [10000, 10500, 9800, 11000] gives 700, and max_drawdown_percent 6.67 (700 / 10500).
C21_MaxDrawdown ==
    /\ (pc = "returned" /\ call.fn = "metric" /\ call.name = "max_drawdown") =>
        /\ ~ret.raised
        /\ equity_curve = << >> => ret.value = 0
        /\ equity_curve # << >> =>
            /\ \A k \in 1..Len(equity_curve) :
                ret.value >= PeakSoFar(k) - equity_curve[k]
            /\ \E k \in 1..Len(equity_curve) :
                ret.value = PeakSoFar(k) - equity_curve[k]
        /\ equity_curve = <<10000, 10500, 9800, 11000>> => ret.value = 700
    /\ (pc = "returned" /\ call.fn = "metric" /\ call.name = "max_drawdown_percent") =>
        /\ ~ret.raised
        /\ equity_curve = << >> => ret.value = 0
        /\ equity_curve = <<10000, 10500, 9800, 11000>> =>
            /\ ret.value = (700 * PercentScale) \div 10500
            /\ (ret.value + 5) \div 10 = 667

\* max_drawdown has returned 700 for the curve of the example, whose top comes last
C21_Witness ==
    /\ pc = "returned"
    /\ call.fn = "metric"
    /\ call.name = "max_drawdown"
    /\ equity_curve = <<10000, 10500, 9800, 11000>>
    /\ ret.value = 700

\* the equity curve never falls below an earlier sample: no drawdown
NeverBelowPeak ==
    \A j \in 1..Len(equity_curve), k \in 1..Len(equity_curve) :
        j <= k => equity_curve[j] <= equity_curve[k]

\* the excess returns are all the same: their standard deviation is 0
FlatExcessReturns ==
    LET excess_returns == ExcessReturns(Metrics)
    IN  \A j \in 1..Len(excess_returns), k \in 1..Len(excess_returns) :
            excess_returns[j] = excess_returns[k]

\* C22: no ratio of PerformanceMetrics raises on a zero denominator, it returns its
\* sentinel: Sharpe 0 on a zero deviation of the excess returns, Sortino 0 without
\* negative excess returns, win rate and average win and loss 0 without trades,
\* recovery factor and Calmar 0 without drawdown, annualized return 0 over 0 days,
\* profit factor 0 without profit or loss and +infinity without loss only.
C22_SentinelsNoRaise ==
    (pc = "returned" /\ call.fn = "metric" /\ call.name \in MetricNames) =>
        /\ (equity_curve # << >> /\ call.initial_capital = 0) => ~ret.raised
        /\ (call.name = "sharpe_ratio" /\ FlatExcessReturns) => ret.value = Zero
        /\ (call.name = "sortino_ratio"
                /\ \A k \in 1..Len(ExcessReturns(Metrics)) : ExcessReturns(Metrics)[k] >= 0)
            => ret.value = Zero
        /\ (call.name \in {"win_rate", "average_win", "average_loss"} /\ trades = << >>)
            => ret.value = Zero
        /\ (call.name = "recovery_factor" /\ NeverBelowPeak) => ret.value = Zero
        /\ (call.name = "calmar_ratio" /\ NeverBelowPeak)
            => (~ret.raised /\ ret.value = [annualized |-> AnnualZero, den |-> 1])
        /\ (call.name = "annualized_return" /\ Len(timestamps) >= 2
                /\ timestamps[Len(timestamps)] - timestamps[1] < DayHours)
            => (~ret.raised /\ ret.value = AnnualZero)
        /\ (call.name = "profit_factor"
                /\ \A k \in 1..Len(trades) : trades[k].pnl >= 0)
            => ret.value = IF \A k \in 1..Len(trades) : trades[k].pnl = 0
                           THEN Zero ELSE Infinity

LevelsReached(t, close) ==
    {k \in 1..Len(t.take_profit) :
        IF t.side = "long" THEN close >= t.take_profit[k][1]
                           ELSE close <= t.take_profit[k][1]}

\* C24: in run(), on every bar where the stop of a trade open at the bar's start is
\* not hit and the close has reached one of its take-profit levels, a part of the
\* trade is closed on that bar at the level's price with reason take_profit_<n>, and
\* the trade leaves the open trades when that was its last level.
C24_TakeProfitOnBar ==
    pc = "entries" =>
        \A s \in DOMAIN bar_open :
            LET t == bar_open[s]
                reached == LevelsReached(t, bar[s].close)
            IN  (~StopThrough(t, bar[s].close) /\ reached # {}) =>
                    /\ \E f \in 1..Len(fills), k \in reached :
                        /\ fills[f].symbol = s
                        /\ fills[f].entry_time = t.entry_time
                        /\ fills[f].time = Timestamp
                        /\ fills[f].kind # "entry"
                        /\ fills[f].ref = t.take_profit[k][1]
                        /\ fills[f].reason = TakeProfitReason(k)
                    /\ Len(t.take_profit) = 1 => s \notin DOMAIN open_trades

\* the fills of a kind a symbol has had
FillCount(fs, symbol, kind) ==
    Len(SelectSeq(fs, LAMBDA f : f.symbol = symbol /\ f.kind = kind))

\* C25: run() never holds more than one open trade of a symbol: every entry of a
\* symbol but the last has had its final exit; and a buy or sell for a symbol with an
\* open trade opens nothing and changes neither the cash nor that trade.
C25_OneTradePerSymbol ==
    [][/\ \A s \in Symbols :
            FillCount(fills', s, "entry") - FillCount(fills', s, "final")
                = IF s \in DOMAIN open_trades' THEN 1 ELSE 0
       /\ (pc = "entries" /\ i >= WarmUp) =>
            /\ \A s \in DOMAIN open_trades :
                ret'.value[s] \in {"buy", "sell"} =>
                    /\ s \in DOMAIN open_trades'
                    /\ open_trades'[s] = open_trades[s]
                    /\ FillCount(fills', s, "entry") = FillCount(fills, s, "entry")
            /\ (DOMAIN open_trades = Symbols
                    /\ \A s \in Symbols : ret'.value[s] \in {"buy", "sell"})
                => (capital' = capital /\ fills' = fills)]_vars

\* a buy has come for a symbol whose short trade was opened on an earlier bar
C25_Witness ==
    /\ pc = "bar"
    /\ i > WarmUp
    /\ ret # NoRet
    /\ \E s \in DOMAIN open_trades :
        /\ ret.value[s] = "buy"
        /\ open_trades[s].side = "short"
        /\ open_trades[s].entry_time < Timestamp

\* C26: run() evaluates no signal and opens no trade on a bar with fewer than 100
\* bars of history before it: when a signal has been evaluated the loop has taken at
\* least 101 bars, and every entry is on the bar of index 100 or on a later one.
C26_WarmUpFirst ==
    /\ ret # NoRet => Len(timestamps) - 1 >= 100
    /\ \A f \in 1..Len(fills) :
        fills[f].kind = "entry" =>
            /\ fills[f].time >= 100
            /\ fills[f].entry_time >= 100
    /\ \A s \in DOMAIN open_trades : open_trades[s].entry_time >= 100

\* a trade has been entered on the bar of index 100, the first past the warm-up
C26_Witness ==
    /\ ret # NoRet
    /\ \E f \in 1..Len(fills) : fills[f].kind = "entry" /\ fills[f].time = 100
    /\ Len(timestamps) = 101

\* the percentage stop of the call: entry x (1 -/+ value), value 0.02 when not named
PercentageStopOfCall ==
    LET value == IF "value" \in DOMAIN cfg.stop THEN cfg.stop.value ELSE 200
    IN  IF call.side = "long" THEN (call.entry_price * (One - value)) \div One
                              ELSE (call.entry_price * (One + value)) \div One

\* the period of the call: atr_period, 14 when not named
PeriodOfCall == IF "atr_period" \in DOMAIN cfg.stop THEN cfg.stop.atr_period ELSE 14

\* C27: under stop type atr, calculate_stop_loss returns entry -/+ ATR x multiplier
\* when the frame has atr_period rows or more and the ATR of its last row is a
\* number, and the percentage stop in every other case; it never raises.
C27_AtrOrPercentage ==
    (pc = "returned" /\ call.fn = "calculate_stop_loss" /\ cfg.stop.type = "atr") =>
        /\ ~ret.raised
        /\ LET atr == CalculateAtr(call.market_data, PeriodOfCall)
               multiplier == IF "multiplier" \in DOMAIN cfg.stop
                             THEN cfg.stop.multiplier ELSE 2
           IN  IF Len(call.market_data) >= PeriodOfCall /\ ~atr.nan
               THEN ret.value = IF call.side = "long"
                                THEN call.entry_price - atr.value * multiplier
                                ELSE call.entry_price + atr.value * multiplier
               ELSE ret.value = PercentageStopOfCall

\* C28: a trade whose remaining size has reached 0 is out of the open trades and in
\* the ledger, once; nothing is done to it afterwards: the exit that brought it to 0
\* is its last one; and the trade a later entry opens on the symbol is a new one.
C28_ClosedIsTerminal ==
    /\ \A s \in DOMAIN open_trades : open_trades[s].remaining_size > 0
    /\ \A k \in 1..Len(trades) :
        LET exits == ExitFills(FillsOf(trades[k].symbol, trades[k].entry_time))
        IN  /\ trades[k].remaining_size = 0
            /\ exits # << >>
            /\ SumSizes(SubSeq(exits, 1, Len(exits) - 1)) < trades[k].size
            /\ trades[k].exit_time = exits[Len(exits)].time
            /\ trades[k].exit_reason = exits[Len(exits)].reason
    /\ \A j \in 1..Len(trades), k \in 1..Len(trades) :
        (trades[j].symbol = trades[k].symbol
            /\ trades[j].entry_time = trades[k].entry_time) => j = k
    /\ \A s \in DOMAIN open_trades, k \in 1..Len(trades) :
        trades[k].symbol = s => open_trades[s].entry_time > trades[k].entry_time

\* C29: run() starts from a clean state each time it is called: at the head of its
\* loop, before the first bar, the cash is the initial capital, the ledger and the
\* timestamps are empty and the equity curve holds the initial capital alone.
C29_CleanStart ==
    (pc = "bar" /\ i = 0) =>
        /\ capital = InitialCapital
        /\ trades = << >>
        /\ open_trades = EmptyDict
        /\ equity_curve = <<InitialCapital>>
        /\ timestamps = << >>


\* the results a sweep has recorded so far, by the combinations it has been through
RECURSIVE Recorded(_, _)
Recorded(cs, n) ==
    IF n = 0 THEN << >>
    ELSE IF cs[n].signal = "raise" THEN Recorded(cs, n - 1)
    ELSE Append(Recorded(cs, n - 1), cs[n])

\* C30: in a sweep every combination whose run does not raise has its result recorded,
\* in order, and a raising one has none; the result recorded for a combination is the
\* one of the same combination run first, on the optimizer's first engine, whatever
\* ran between the two
C30_IsolatedCombinations ==
    call.fn = "optimize" =>
        /\ Len(call.results) = Len(Recorded(call.combinations, call.k - 1))
        /\ \A a \in 1..Len(call.results) :
              call.results[a].parameters = Recorded(call.combinations, call.k - 1)[a]
        /\ \A a \in 1..Len(call.results) :
              call.results[a].parameters = call.combinations[1] =>
                  call.results[a] = call.results[1]

\* a sweep returned whose first combination ran again after one that raised and one
\* that traded otherwise, and came to a trade of its own both times
C30_Witness ==
    /\ pc = "swept"
    /\ Len(call.combinations) = 3
    /\ call.combinations[2].signal = "raise"
    /\ call.combinations[3] = call.combinations[1]
    /\ Len(call.results) = 2
    /\ call.results[2].results.trades # << >>
    /\ call.results[2].score # 0

====
